---- MODULE Spec2Model ----
(***************************************************************************)
(* The CSV reconciliation (merge/import) engine of kith-platform/app.py,   *)
(* its idempotency ledger (table file_imports) and the category            *)
(* canonicalizer, as a state machine over the SQLite store.                *)
(*                                                                         *)
(* Text is modelled by TLA+ strings; the string functions of the code      *)
(* (strip, lower, upper, replace, substring test, int parsing) are         *)
(* computed character by character.                                        *)
(***************************************************************************)
EXTENDS Integers, Sequences, FiniteSets, TLC

VARIABLES
    contacts,   \* table contacts: sequence of rows, the row id is the index
    details,    \* table synthesized_entries: sequence of rows
    ledger,     \* table file_imports: sequence of rows, the row id is the index
    now,        \* number of requests started so far (CURRENT_TIMESTAMP)
    last,       \* the request handled last and its response
    procs,      \* the requests in flight (concurrent specification only)
    call        \* the function applied last, its arguments and its result
                \* (specifications of the pure functions only)

vars == <<contacts, details, ledger, now, last, procs, call>>

-----------------------------------------------------------------------------
(* Strings *)

UpperAlpha == "ABCDEFGHIJKLMNOPQRSTUVWXYZ"
LowerAlpha == "abcdefghijklmnopqrstuvwxyz"
Digits == "0123456789"
Whitespace == {" ", "\t", "\n", "\r"}

Char(s, i) == SubSeq(s, i, i)

IndexIn(alphabet, c) == CHOOSE i \in 1..Len(alphabet) : Char(alphabet, i) = c
IsIn(alphabet, c) == \E i \in 1..Len(alphabet) : Char(alphabet, i) = c

LowerChar(c) == IF IsIn(UpperAlpha, c) THEN Char(LowerAlpha, IndexIn(UpperAlpha, c)) ELSE c
UpperChar(c) == IF IsIn(LowerAlpha, c) THEN Char(UpperAlpha, IndexIn(LowerAlpha, c)) ELSE c

\* str.lower, one half of the text after the other
RECURSIVE lower(_)
lower(s) ==
    IF Len(s) <= 1 THEN LowerChar(s)
    ELSE lower(SubSeq(s, 1, Len(s) \div 2))
            \o lower(SubSeq(s, Len(s) \div 2 + 1, Len(s)))

RECURSIVE upper(_)
upper(s) == IF s = "" THEN "" ELSE UpperChar(Head(s)) \o upper(Tail(s))

RECURSIVE lstrip(_)
lstrip(s) == IF s # "" /\ Head(s) \in Whitespace THEN lstrip(Tail(s)) ELSE s

RECURSIVE rstrip(_)
rstrip(s) ==
    IF s # "" /\ Char(s, Len(s)) \in Whitespace
    THEN rstrip(SubSeq(s, 1, Len(s) - 1))
    ELSE s

strip(s) == rstrip(lstrip(s))

RECURSIVE replace_space_underscore(_)
replace_space_underscore(s) ==
    IF s = "" THEN ""
    ELSE (IF Head(s) = " " THEN "_" ELSE Head(s)) \o replace_space_underscore(Tail(s))

Contains(s, sub) ==
    \E i \in 1..(Len(s) - Len(sub) + 1) : SubSeq(s, i, i + Len(sub) - 1) = sub

RECURSIVE DigitsValue(_, _)
DigitsValue(s, acc) ==
    IF s = "" THEN acc
    ELSE DigitsValue(Tail(s), 10 * acc + (IndexIn(Digits, Head(s)) - 1))

AllDigits(s) == s # "" /\ \A i \in 1..Len(s) : IsIn(Digits, Char(s, i))

\* def to_int_or(default, val): int(str(val).strip()) or default when the
\* text is empty or int() raises
to_int_or(default, val) ==
    LET v == strip(val)
        body == IF v # "" /\ Head(v) \in {"+", "-"} THEN Tail(v) ELSE v
    IN  IF v = "" THEN default
        ELSE IF ~AllDigits(body) THEN default
        ELSE IF Head(v) = "-" THEN 0 - DigitsValue(body, 0)
        ELSE DigitsValue(body, 0)

-----------------------------------------------------------------------------
(* Categories (constants.py) and the canonicalizer *)

CATEGORY_ORDER == <<
    "Actionable", "Goals", "Relationship_Strategy", "Social", "Wellbeing",
    "Avocation", "Professional_Background", "Environment_And_Lifestyle",
    "Psychology_And_Values", "Communication_Style",
    "Challenges_And_Development", "Deeper_Insights", "Financial_Situation",
    "Admin_Matters", "ESTABLISHED_PATTERNS", "CORE_IDENTITY",
    "Information gaps", "Memory anchors", "POSITIONALITY", "Others" >>

VALID_CATEGORY_SET == { CATEGORY_ORDER[i] : i \in 1..Len(CATEGORY_ORDER) }

SYNONYM_TO_CATEGORY ==
    [ preferences  |-> "Avocation",
      hobbies      |-> "Avocation",
      work_history |-> "Professional_Background",
      work         |-> "Professional_Background",
      job          |-> "Professional_Background",
      contact_info |-> "Admin_Matters",
      logistics    |-> "Admin_Matters",
      health       |-> "Wellbeing",
      habits       |-> "ESTABLISHED_PATTERNS" ]

\* cat.lower() for each canonical token
LowerOfCategory == [ cat \in VALID_CATEGORY_SET |-> lower(cat) ]

\* Fault: a name that no rule recognises is returned as it stands
canonicalize_passthrough(category_name) ==
    LET normalized == replace_space_underscore(strip(category_name))
        low == lower(normalized)
    IN  IF normalized \in VALID_CATEGORY_SET THEN normalized
        ELSE IF \E cat \in VALID_CATEGORY_SET : low = LowerOfCategory[cat]
             THEN CHOOSE cat \in VALID_CATEGORY_SET : low = LowerOfCategory[cat]
        ELSE IF low \in DOMAIN SYNONYM_TO_CATEGORY THEN SYNONYM_TO_CATEGORY[low]
        ELSE normalized

canonicalize_category(category_name) ==
    LET normalized == replace_space_underscore(strip(category_name))
        low == lower(normalized)
    IN  IF normalized \in VALID_CATEGORY_SET THEN normalized
        ELSE IF \E cat \in VALID_CATEGORY_SET : low = LowerOfCategory[cat]
             THEN CHOOSE cat \in VALID_CATEGORY_SET : low = LowerOfCategory[cat]
        ELSE IF low \in DOMAIN SYNONYM_TO_CATEGORY THEN SYNONYM_TO_CATEGORY[low]
        ELSE "Others"

-----------------------------------------------------------------------------
(* Record classifier *)

\* Fault: the SYNTHESIZED/DETAIL substring rule is tried before the CONTACT one
classify_detail_first(value) ==
    LET v == upper(strip(value))
    IN  IF value = "" THEN ""
        ELSE IF v = "CONTACT" THEN "CONTACT"
        ELSE IF v = "SYNTHESIZED_DETAIL" THEN "SYNTHESIZED_DETAIL"
        ELSE IF v = "RAW_NOTE" THEN "RAW_NOTE"
        ELSE IF Contains(v, "SYNTHESIZED") \/ Contains(v, "DETAIL") THEN "SYNTHESIZED_DETAIL"
        ELSE IF Contains(v, "CONTACT") THEN "CONTACT"
        ELSE IF Contains(v, "RAW") /\ Contains(v, "NOTE") THEN "RAW_NOTE"
        ELSE ""

classify_record_type(value) ==
    LET v == upper(strip(value))
    IN  IF value = "" THEN ""
        ELSE IF v = "CONTACT" THEN "CONTACT"
        ELSE IF v = "SYNTHESIZED_DETAIL" THEN "SYNTHESIZED_DETAIL"
        ELSE IF v = "RAW_NOTE" THEN "RAW_NOTE"
        ELSE IF Contains(v, "CONTACT") THEN "CONTACT"
        ELSE IF Contains(v, "SYNTHESIZED") \/ Contains(v, "DETAIL") THEN "SYNTHESIZED_DETAIL"
        ELSE IF Contains(v, "RAW") /\ Contains(v, "NOTE") THEN "RAW_NOTE"
        ELSE ""

-----------------------------------------------------------------------------
(* The uploaded tables *)

Row(rt, name, tier, category, detail) ==
    [ record_type |-> rt, contact_full_name |-> name, contact_tier |-> tier,
      category |-> category, detail_content |-> detail ]

\* The files a request can upload.  is_record_type is has_logical('record_type')
\* of the header row; a row gives the cell of each logical field.  The
\* fingerprint of a file (sha256 of its bytes) is its index here.
Files == <<
    [ is_record_type |-> FALSE, rows |-> <<
        Row("", "Al", "1", "Social", "met"),
        Row("", "Al", "1", "Social", "met"),
        Row("", "Bo", "2", "Social", "met") >> ],
    [ is_record_type |-> TRUE, rows |-> <<
        Row("CONTACT", "Al", "2", "", ""),
        Row("SYNTHESIZED_DETAIL", "al ", "", "hobbies", "tea"),
        Row("detail", "Bo", "7", "", "tea"),
        Row("junk", "Bo", "1", "Social", "met"),
        Row("RAW_NOTE", "", "", "", "") >> ],
    [ is_record_type |-> TRUE, rows |-> <<
        Row("contact", "AL", "3", "", ""),
        Row("CONTACT", " ", "1", "", ""),
        Row("SYNTHESIZED_DETAIL", "Al", "1", "Social", "met"),
        Row("SYNTHESIZED_DETAIL", "Bo", "x", "social", "") >> ],
    [ is_record_type |-> FALSE, rows |-> <<
        Row("", " al", "", "", "tea"),
        Row("", "", "1", "Social", "met"),
        Row("", "Bo", " ", "Goals", "tea") >> ] >>

\* The texts the engine meets: the cells of the files, stripped or not, and
\* the texts the engine writes itself.  The string functions are tabulated
\* once over them, and computed directly on any other text.
CellTexts ==
    UNION { UNION { { Files[f].rows[i][k] : k \in DOMAIN Files[f].rows[i] } :
                    i \in 1..Len(Files[f].rows) } :
            f \in 1..Len(Files) }

KnownTexts ==
    CellTexts \cup { strip(c) : c \in CellTexts } \cup VALID_CATEGORY_SET
        \cup {"Uncategorized", "2"}

StripTable == [ s \in KnownTexts |-> strip(s) ]
LowerTable == [ s \in KnownTexts |-> lower(s) ]
IntTable == [ d \in {0, 2} |-> [ s \in KnownTexts |-> to_int_or(d, s) ] ]
CategoryTable == [ s \in KnownTexts |-> canonicalize_category(s) ]
RecordTypeTable == [ s \in KnownTexts |-> classify_record_type(s) ]

\* def norm(s): return (s or '').strip()
norm(s) == IF s \in KnownTexts THEN StripTable[s] ELSE strip(s)

Lower(s) == IF s \in KnownTexts THEN LowerTable[s] ELSE lower(s)

ToIntOr(default, val) ==
    IF val \in KnownTexts /\ default \in DOMAIN IntTable
    THEN IntTable[default][val] ELSE to_int_or(default, val)

Canonical(category) ==
    IF category \in KnownTexts THEN CategoryTable[category]
    ELSE canonicalize_category(category)

RecordType(value) ==
    IF value \in KnownTexts THEN RecordTypeTable[value]
    ELSE classify_record_type(value)

-----------------------------------------------------------------------------
(* The store as a connection sees it, and the maps a merge loads from it *)

Users == {1, 2}     \* the ids of table users, in ORDER BY id order

Max(S) == CHOOSE x \in S : \A y \in S : y <= x

\* sig = f"{category}|{detail_text}"
Sig(category, content) == category \o "|" \o content

\* Fault: names are matched as written, letter case included
NameKeyCaseSensitive(name) == name

\* name_key = name.lower()
NameKey(name) == Lower(name)

\* WHERE COALESCE(user_id, 1) = 1 (run_merge_process) or WHERE user_id = ?
\* (the admin variants); every contact row of the model has a user id
InScope(c, o) == IF o.variant = "user" THEN c.user_id = 1 ELSE c.user_id = o.user

\* { (row['full_name'] or '').strip().lower(): row['id'] for row in cur }:
\* rows come in id order, a later row of the same key replaces an earlier one
LoadContacts(cs, o) ==
    LET idx == { i \in 1..Len(cs) : InScope(cs[i], o) }
        key(i) == Lower(norm(cs[i].full_name))
    IN  [ k \in { key(i) : i \in idx } |-> Max({ i \in idx : key(i) = k }) ]

\* existing_details_map: contact_id -> set of signatures; run_merge_process
\* reads every row of synthesized_entries, the admin variants join contacts
\* on the target user
LoadDetails(cs, ds, o) ==
    LET idx == { i \in 1..Len(ds) :
                    \/ o.variant = "user"
                    \/ /\ ds[i].contact_id \in 1..Len(cs)
                       /\ cs[ds[i].contact_id].user_id = o.user }
    IN  [ c \in { ds[i].contact_id : i \in idx } |->
            { Sig(norm(ds[i].category), norm(ds[i].content)) :
                i \in { j \in idx : ds[j].contact_id = c } } ]

ZeroStats ==
    [ contacts_added |-> 0, details_added |-> 0,
      contacts_skipped |-> 0, details_skipped |-> 0,
      rows_total |-> 0, rows_contact_processed |-> 0,
      rows_synth_processed |-> 0, rows_skipped_unknown_type |-> 0,
      rows_skipped_no_name |-> 0, rows_skipped_duplicate |-> 0 ]

AddStats(a, b) == [ k \in DOMAIN a |-> a[k] + b[k] ]

\* The state of one merge: the tables as its connection sees them (with its
\* own uncommitted writes), the two maps, the counters, the conflicts, the
\* number of write statements executed, whether one of them raised out of
\* the batch, which statement failed ("" when none did), the contact the
\* current row resolved to, and for the all-users variant the totals and the
\* per-user results so far.
StartMerge(cs, ds, n2c, edm, ops) ==
    [ contacts |-> cs, details |-> ds,
      name_to_contact_id |-> n2c, existing_details_map |-> edm,
      stats |-> ZeroStats, conflicts |-> <<>>,
      ops |-> ops, raised |-> FALSE, failed_op |-> "", contact_id |-> 0,
      total |-> ZeroStats, user_results |-> <<>> ]

Bump(m, k) == [m EXCEPT !.stats[k] = @ + 1]

\* Fault: every would-be contact of a preview gets the same placeholder id
PseudoIdConstant(stats) == 0 - 1

\* contact_id = -(stats['contacts_added'] + 1)  # pseudo id for preview
PseudoId(stats) == 0 - (stats.contacts_added + 1)

\* A write statement fails when it is the fail_at-th of the batch (0: none)
Fails(m, o) == m.ops + 1 = o.fail_at

\* Fault: the contact insert is executed in a dry run too
InsertContactInDryRun(m, o, name, tier_val) ==
    [m EXCEPT !.ops = @ + 1,
              !.contacts = Append(@, [user_id |-> o.user, full_name |-> name,
                                      tier |-> tier_val]),
              !.contact_id = Len(m.contacts) + 1]

\* INSERT INTO contacts ...; SELECT last_insert_rowid()   (or the pseudo id)
InsertContact(m, o, name, tier_val) ==
    IF o.dry_run THEN [m EXCEPT !.contact_id = PseudoId(m.stats)]
    ELSE IF Fails(m, o) THEN [m EXCEPT !.ops = @ + 1, !.raised = TRUE,
                                       !.failed_op = "contact_insert"]
    ELSE [m EXCEPT !.ops = @ + 1,
                   !.contacts = Append(@, [user_id |-> o.user, full_name |-> name,
                                           tier |-> tier_val]),
                   !.contact_id = Len(m.contacts) + 1]

\* name_to_contact_id[name_key] = contact_id
\* existing_details_map.setdefault(contact_id, set())
Register(m, name_key) ==
    IF m.raised THEN m
    ELSE [m EXCEPT
            !.name_to_contact_id = (name_key :> m.contact_id) @@ @,
            !.existing_details_map =
                IF m.contact_id \in DOMAIN @ THEN @ ELSE (m.contact_id :> {}) @@ @]

\* UPDATE contacts SET tier = ? WHERE id = ?, inside try/except: a failure is
\* caught and reported as an 'error' conflict (not reported by the all-users
\* variant); a dry run records a contact_tier_update conflict instead
UpdateTier(m, o, name, tier_val, id) ==
    IF o.dry_run THEN
        IF o.variant = "all" THEN m
        ELSE [m EXCEPT !.conflicts = Append(@,
                [type |-> "contact_tier_update", name |-> name, to |-> tier_val])]
    ELSE IF Fails(m, o) THEN
        [m EXCEPT !.ops = @ + 1, !.failed_op = "tier_update",
                  !.conflicts = IF o.variant = "all" THEN @
                                ELSE Append(@, [type |-> "error", name |-> name,
                                                to |-> tier_val])]
    ELSE [m EXCEPT !.ops = @ + 1, !.contacts[id].tier = tier_val]

\* INSERT INTO synthesized_entries (contact_id, category, content, ...)
InsertDetail(m, o, category, content) ==
    IF o.dry_run THEN m
    ELSE IF Fails(m, o) THEN [m EXCEPT !.ops = @ + 1, !.raised = TRUE,
                                       !.failed_op = "detail_insert"]
    ELSE [m EXCEPT !.ops = @ + 1,
                   !.details = Append(@, [contact_id |-> m.contact_id,
                                          category |-> category,
                                          content |-> content])]

\* get_val(row, key) strips the cell it reads
get_val(row, logical_key) == norm(row[logical_key])

\* stats['rows_total'] += 1 at the head of the first pass: present in
\* run_merge_process and run_admin_all_users_merge_process, absent from
\* run_admin_merge_process
CountRow(m, o) == IF o.variant = "admin" THEN m ELSE Bump(m, "rows_total")

\* stats['contacts_added'] += 1; stats['rows_contact_processed'] += 1
CountContact(m) ==
    IF m.raised THEN m
    ELSE Bump(Bump(m, "contacts_added"), "rows_contact_processed")

\* The first pass on a CONTACT row whose name and tier have been read
ContactNamed(m, o, name, tier_val) ==
    IF name = "" THEN Bump(m, "rows_skipped_no_name")
    ELSE IF NameKey(name) \in DOMAIN m.name_to_contact_id THEN
        Bump(IF o.tier_policy = "overwrite" /\ tier_val \in {1, 2, 3}
             THEN UpdateTier(m, o, name, tier_val, m.name_to_contact_id[NameKey(name)])
             ELSE m,
             "contacts_skipped")
    ELSE CountContact(Register(InsertContact(m, o, name, tier_val), NameKey(name)))

\* The first pass, over the rows of a record-type table
ContactRow(m, o, row) ==
    IF m.raised THEN m
    ELSE IF RecordType(get_val(row, "record_type")) # "CONTACT" THEN CountRow(m, o)
    ELSE ContactNamed(CountRow(m, o), o, norm(get_val(row, "contact_full_name")),
                      ToIntOr(2, get_val(row, "contact_tier")))

\* cell or '2'
OrTwo(cell) == IF cell = "" THEN "2" ELSE cell

\* iter_normalized_rows: the fields of a detail row.  A record-type table is
\* read through get_val, a legacy table through the literal headers, whose
\* tier cell is not stripped.
NormalizedRow(table, row) ==
    [ name |-> norm(row.contact_full_name),
      tier |-> OrTwo(IF table.is_record_type THEN get_val(row, "contact_tier")
                     ELSE row.contact_tier),
      category |-> norm(row.category),
      detail |-> norm(row.detail_content) ]

\* existing_details_map.get(contact_id, set())
KnownSigs(m) ==
    IF m.contact_id \in DOMAIN m.existing_details_map
    THEN m.existing_details_map[m.contact_id] ELSE {}

\* A duplicate that is skipped: run_merge_process counts it twice and reports
\* a duplicate_detail conflict, the admin variants count it once
SkipDetail(m, o, name, category, content) ==
    IF o.variant = "user"
    THEN [Bump(Bump(m, "details_skipped"), "rows_skipped_duplicate") EXCEPT
            !.conflicts = Append(@, [type |-> "duplicate_detail", name |-> name,
                                     category |-> category, content |-> content])]
    ELSE Bump(m, "details_skipped")

\* Fault: an inserted detail's signature is not remembered for the rest of
\* the batch
AddDetailForgetting(m, sig) ==
    IF m.raised THEN m
    ELSE Bump(Bump(m, "details_added"), "rows_synth_processed")

\* existing_details_map.setdefault(contact_id, set()).add(sig);
\* stats['details_added'] += 1; stats['rows_synth_processed'] += 1
AddDetail(m, sig) ==
    IF m.raised THEN m
    ELSE [Bump(Bump(m, "details_added"), "rows_synth_processed") EXCEPT
            !.existing_details_map = (m.contact_id :> (KnownSigs(m) \cup {sig})) @@ @]

\* The duplicate check and the insert of a detail.  run_merge_process skips
\* a duplicate only `if is_dup and details_policy == 'preserve'`; the admin
\* variants skip every duplicate.
Detail(m, o, name, category, detail_text) ==
    IF /\ Sig(category, detail_text) \in KnownSigs(m)
       /\ (o.variant # "user" \/ o.details_policy = "preserve")
    THEN SkipDetail(m, o, name, category, detail_text)
    ELSE AddDetail(InsertDetail(m, o, category, detail_text),
                   Sig(category, detail_text))

\* run_merge_process, second pass, after the contact has been resolved:
\* category = r['category'] or 'Uncategorized'
DetailPart(m, o, r) ==
    IF m.raised \/ r.detail = "" THEN m
    ELSE Detail(m, o, r.name,
                IF r.category = "" THEN "Uncategorized" ELSE r.category, r.detail)

\* contact_id = name_to_contact_id[name_key]
Found(m, name_key) == [m EXCEPT !.contact_id = m.name_to_contact_id[name_key]]

\* Fault: the second pass updates the tier whatever the policy
ExistingTierAnyPolicy(m, o, name, tier_val) ==
    IF tier_val \in {1, 2, 3}
    THEN UpdateTier(m, o, name, tier_val, m.contact_id)
    ELSE m

\* run_merge_process, second pass, contact present:
\* if tier_val in (1, 2, 3) and contact_tier_policy == 'overwrite'
ExistingTier(m, o, name, tier_val) ==
    IF tier_val \in {1, 2, 3} /\ o.tier_policy = "overwrite"
    THEN UpdateTier(m, o, name, tier_val, m.contact_id)
    ELSE m

\* run_merge_process, second pass: one normalized row
DetailRow(m, o, r) ==
    IF r.name = "" THEN Bump(m, "rows_skipped_no_name")
    ELSE IF NameKey(r.name) \notin DOMAIN m.name_to_contact_id
    THEN DetailPart(CountContact(Register(
                        InsertContact(m, o, r.name, ToIntOr(2, r.tier)),
                        NameKey(r.name))),
                    o, r)
    ELSE DetailPart(Bump(Bump(ExistingTier(Found(m, NameKey(r.name)), o, r.name,
                                           ToIntOr(0, r.tier)),
                              "contacts_skipped"),
                         "rows_synth_processed"),
                    o, r)

\* stats['contacts_added'] += 1 (second pass of the admin variants)
CountAdminContact(m) == IF m.raised THEN m ELSE Bump(m, "contacts_added")

\* The admin variants, second pass, after the contact has been resolved:
\* category = canonicalize_category(row_data['category'])
AdminDetailPart(m, o, r) ==
    IF m.raised \/ r.detail = "" THEN m
    ELSE Detail(Found(m, NameKey(r.name)), o, r.name, Canonical(r.category),
                r.detail)

\* run_admin_merge_process and run_admin_all_users_merge_process, second
\* pass: one normalized row
AdminDetailRow(m, o, r) ==
    IF r.name = "" THEN Bump(Bump(m, "rows_total"), "rows_skipped_no_name")
    ELSE AdminDetailPart(
            IF NameKey(r.name) \notin DOMAIN m.name_to_contact_id
            THEN CountAdminContact(Register(
                    InsertContact(Bump(m, "rows_total"), o, r.name,
                                  ToIntOr(2, r.tier)),
                    NameKey(r.name)))
            ELSE Bump(m, "rows_total"),
            o, r)

\* The loop body of the second pass of the variant
NormalizedDetailRow(m, o, r) ==
    IF o.variant = "user" THEN DetailRow(m, o, r) ELSE AdminDetailRow(m, o, r)

\* One row of the second pass: the filter of iter_normalized_rows, then the
\* loop body
SecondPassRow(m, o, table, row) ==
    IF m.raised THEN m
    ELSE IF table.is_record_type /\ RecordType(get_val(row, "record_type")) = ""
    THEN Bump(m, "rows_skipped_unknown_type")
    ELSE IF /\ table.is_record_type
            /\ RecordType(get_val(row, "record_type")) # "SYNTHESIZED_DETAIL"
    THEN m
    ELSE NormalizedDetailRow(m, o, NormalizedRow(table, row))

RECURSIVE FirstPass(_, _, _, _)
FirstPass(m, o, rows, i) ==
    IF i > Len(rows) THEN m
    ELSE FirstPass(ContactRow(m, o, rows[i]), o, rows, i + 1)

RECURSIVE SecondPass(_, _, _, _)
SecondPass(m, o, table, i) ==
    IF i > Len(table.rows) THEN m
    ELSE SecondPass(SecondPassRow(m, o, table, table.rows[i]), o, table, i + 1)

RECURSIVE RowByRow(_, _, _, _)
RowByRow(m, o, table, i) ==
    IF i > Len(table.rows) THEN m
    ELSE RowByRow(SecondPassRow(ContactRow(m, o, table.rows[i]), o, table,
                                table.rows[i]),
                  o, table, i + 1)

\* Fault: one pass, every row handled where it stands in the file
PassesInFileOrder(m, o, table) ==
    IF table.is_record_type THEN RowByRow(m, o, table, 1)
    ELSE SecondPass(m, o, table, 1)

\* The two passes over the table for one owner scope, from loaded maps
Passes(m, o, table) ==
    SecondPass(IF table.is_record_type THEN FirstPass(m, o, table.rows, 1) ELSE m,
               o, table, 1)

\* conn.commit() at the end of a batch that is not a dry run
Commit(m, o) ==
    IF o.dry_run \/ m.raised THEN m
    ELSE IF Fails(m, o) THEN [m EXCEPT !.ops = @ + 1, !.raised = TRUE,
                                       !.failed_op = "commit"]
    ELSE [m EXCEPT !.ops = @ + 1]

UserStatsKeys ==
    { "contacts_added", "details_added", "contacts_skipped", "details_skipped",
      "rows_contact_processed", "rows_synth_processed" }

Min(S) == CHOOSE x \in S : \A y \in S : x <= y

\* run_admin_all_users_merge_process, head of the loop body: fresh counters,
\* the two maps loaded for this user through the batch's connection
StartUser(m, o) ==
    [StartMerge(m.contacts, m.details, LoadContacts(m.contacts, o),
                LoadDetails(m.contacts, m.details, o), m.ops)
        EXCEPT !.failed_op = m.failed_op, !.total = m.total,
               !.user_results = m.user_results]

\* # Update totals ... user_results[username] = user_stats
Accumulate(m) ==
    IF m.raised THEN m
    ELSE [m EXCEPT !.total = AddStats(@, m.stats),
                   !.user_results = Append(@, [k \in UserStatsKeys |-> m.stats[k]])]

\* for user_id, username in users  (SELECT id, username FROM users ORDER BY id)
RECURSIVE AllUsersLoop(_, _, _, _)
AllUsersLoop(m, o, table, todo) ==
    IF todo = {} \/ m.raised THEN m
    ELSE AllUsersLoop(
            Accumulate(Passes(StartUser(m, [o EXCEPT !.user = Min(todo)]),
                              [o EXCEPT !.user = Min(todo)], table)),
            o, table, todo \ {Min(todo)})

\* Fault: the writes a batch made before it failed stay in the store
NotRolledBack(cs, ds, m) == [ contacts |-> m.contacts, details |-> m.details ]

\* `with get_db_connection() as conn:` left by an exception: the connection
\* rolls its transaction back, the tables are as they were before the batch
RolledBack(cs, ds, m) == [ contacts |-> cs, details |-> ds ]

\* What a merge process leaves and returns: an exception leaves the block
\* (the endpoint answers 500), otherwise status success, or preview for a
\* dry run, with the counters
Outcome(cs, ds, o, c) ==
    IF c.raised
    THEN [ status |-> "failed",
           contacts |-> RolledBack(cs, ds, c).contacts,
           details |-> RolledBack(cs, ds, c).details,
           stats |-> ZeroStats, conflicts |-> <<>>, user_results |-> <<>>,
           failed_op |-> c.failed_op, ops |-> c.ops ]
    ELSE [ status |-> IF o.dry_run THEN "preview" ELSE "success",
           contacts |-> c.contacts, details |-> c.details,
           stats |-> IF o.variant = "all" THEN c.total ELSE c.stats,
           conflicts |-> c.conflicts, user_results |-> c.user_results,
           failed_op |-> c.failed_op, ops |-> c.ops ]

\* The body of a merge process from the maps it loaded.  cs, ds are the
\* tables at the time the batch writes; n2c, edm the maps loaded before (the
\* all-users variant loads its maps inside its loop).
MergeFrom(cs, ds, n2c, edm, o, table) ==
    Outcome(cs, ds, o,
            Commit(IF o.variant = "all"
                   THEN AllUsersLoop(StartMerge(cs, ds, <<>>, <<>>, 0), o, table, Users)
                   ELSE Passes(StartMerge(cs, ds, n2c, edm, 0), o, table),
                   o))

\* run_merge_process, run_admin_merge_process or
\* run_admin_all_users_merge_process run on its own against the store
run_merge(cs, ds, o, table) ==
    MergeFrom(cs, ds, LoadContacts(cs, o), LoadDetails(cs, ds, o), o, table)

-----------------------------------------------------------------------------
(* The three import endpoints *)

\* conflicts[:200]  # cap for response size
ConflictCap == 200

\* A request: the endpoint (merge_from_csv_endpoint, admin_import_user_csv,
\* admin_import_all_users_csv), the target user of the admin endpoint, the
\* file and the form fields
Requests ==
    { r \in [ endpoint : {"user", "admin", "all"}, user : {0} \cup Users,
              file : 1..Len(Files), dry_run : BOOLEAN, force : BOOLEAN,
              tier_policy : {"preserve", "overwrite"},
              details_policy : {"preserve", "append"} ] :
        /\ r.endpoint = "user" => r.user = 1
        /\ r.endpoint = "admin" => r.user \in Users
        /\ r.endpoint = "all" => r.user = 0 }

\* The options a request hands to its merge process
Options(req, fail_at) ==
    [ variant |-> req.endpoint, user |-> req.user, dry_run |-> req.dry_run,
      tier_policy |-> req.tier_policy, details_policy |-> req.details_policy,
      fail_at |-> fail_at ]

ImportType(req) == IF req.endpoint = "all" THEN "csv_all_users" ELSE "csv_merge"

\* SELECT id, created_at FROM file_imports WHERE import_type = ? AND
\* file_hash = ? [AND user_id = ?]: the ids of the matching rows
LedgerLookup(lg, req) ==
    { i \in 1..Len(lg) :
        /\ lg[i].import_type = ImportType(req)
        /\ lg[i].file_hash = req.file
        /\ req.endpoint = "admin" => lg[i].user_id = req.user }

\* Fault: the short-circuit does not look at force
LedgerHitIgnoringForce(lg, req) == LedgerLookup(lg, req) # {} /\ ~req.dry_run

\* if row and not force and not dry_run: return status skipped
LedgerHit(lg, req) == LedgerLookup(lg, req) # {} /\ ~req.force /\ ~req.dry_run

\* Fault: file_imports without its UNIQUE(import_type, file_hash)
InsertUnconstrained(lg, row, on_conflict) ==
    [ rows |-> Append(lg, row), raised |-> FALSE ]

\* INSERT [OR IGNORE] INTO file_imports under UNIQUE(import_type, file_hash):
\* a row whose key is present is skipped by OR IGNORE and raises otherwise
InsertInto(lg, row, on_conflict) ==
    IF \E i \in 1..Len(lg) : /\ lg[i].import_type = row.import_type
                             /\ lg[i].file_hash = row.file_hash
    THEN [ rows |-> lg, raised |-> on_conflict # "IGNORE" ]
    ELSE [ rows |-> Append(lg, row), raised |-> FALSE ]

LedgerRow(req, t) ==
    [ user_id |-> req.user, import_type |-> ImportType(req),
      file_hash |-> req.file, created_at |-> t ]

\* if not dry_run and result.get('status') == 'success':
\*     INSERT OR IGNORE ...   (an exception is logged as a warning)
PersistLedger(lg, req, status, t, fails) ==
    IF ~req.dry_run /\ status = "success"
    THEN IF fails THEN [ rows |-> lg, raised |-> TRUE ]
         ELSE InsertInto(lg, LedgerRow(req, t), "IGNORE")
    ELSE [ rows |-> lg, raised |-> FALSE ]

Cap(seq) == IF Len(seq) > ConflictCap THEN SubSeq(seq, 1, ConflictCap) ELSE seq

\* The JSON response, with the request it answers, the number of write
\* statements the batch executed, the statement that failed and whether the
\* ledger insert logged a warning
Response(req, res, warned) ==
    [ req |-> req, status |-> res.status, stats |-> res.stats,
      conflicts |-> IF req.dry_run /\ req.endpoint = "user" /\ res.status = "preview"
                    THEN Cap(res.conflicts) ELSE <<>>,
      user_results |-> res.user_results,
      import_id |-> 0, imported_at |-> 0,
      ops |-> res.ops,
      failed_op |-> IF warned /\ res.failed_op = "" THEN "ledger_insert"
                    ELSE res.failed_op,
      warned |-> warned ]

\* The response of a request the ledger short-circuits
Skipped(lg, req) ==
    LET hits == LedgerLookup(lg, req)
        id == CHOOSE i \in hits : \A j \in hits : i <= j
    IN  [ req |-> req, status |-> "skipped", stats |-> ZeroStats,
          conflicts |-> <<>>, user_results |-> <<>>,
          import_id |-> id, imported_at |-> lg[id].created_at,
          ops |-> 0, failed_op |-> "", warned |-> FALSE ]

\* The end of a request that ran its batch: the store the batch left, the
\* ledger after the insert, the response
Answered(req, res, lg) ==
    /\ contacts' = res.contacts
    /\ details' = res.details
    /\ ledger' = lg.rows
    /\ last' = Response(req, res, lg.raised)

\* A request whose batch has run: the ledger insert follows the batch's
\* write statements
Served(req, res, fail_at) ==
    Answered(req, res,
             PersistLedger(ledger, req, res.status, now + 1, res.ops + 1 = fail_at))

\* One request handled from start to end with no other request in between;
\* the fail_at-th write statement of the request fails (0: none does)
Handle(req, fail_at) ==
    /\ now' = now + 1
    /\ IF LedgerHit(ledger, req)
       THEN /\ last' = Skipped(ledger, req)
            /\ UNCHANGED <<contacts, details, ledger>>
       ELSE Served(req, run_merge(contacts, details, Options(req, fail_at),
                                  Files[req.file]),
                   fail_at)
    /\ UNCHANGED <<procs, call>>

MaxRequests == 2

Upload == \E req \in Requests : now < MaxRequests /\ Handle(req, 0)

-----------------------------------------------------------------------------
\* No pure function has been applied
NoCall == [ fn |-> "none" ]

\* Before any request: no response yet
NoResponse ==
    [ req |-> [ endpoint |-> "none", user |-> 0, file |-> 0, dry_run |-> FALSE,
                force |-> FALSE, tier_policy |-> "preserve",
                details_policy |-> "preserve" ],
      status |-> "none", stats |-> ZeroStats, conflicts |-> <<>>,
      user_results |-> <<>>, import_id |-> 0, imported_at |-> 0,
      ops |-> 0, failed_op |-> "", warned |-> FALSE ]

Init ==
    /\ contacts = <<>>
    /\ details = <<>>
    /\ ledger = <<>>
    /\ now = 0
    /\ last = NoResponse
    /\ procs = <<>>
    /\ call = NoCall

Next == Upload

Spec == Init /\ [][Next]_vars

-----------------------------------------------------------------------------
(* Repeated imports: non-dry requests under the default policies, one more
   of them in a row than Spec allows *)

MaxRepeats == 3

RepeatRequests ==
    { r \in Requests : /\ ~r.dry_run
                       /\ r.tier_policy = "preserve"
                       /\ r.details_policy = "preserve" }

Reupload == \E req \in RepeatRequests : now < MaxRepeats /\ Handle(req, 0)

SpecRepeat == Init /\ [][Reupload]_vars

-----------------------------------------------------------------------------
(* Storage failures: the fail_at-th write statement of a request fails (the
   statements of the batch, its commit, then the ledger insert); a request
   with fewer statements runs undisturbed *)

MaxFailRequests == 2
MaxFailAt == 6

FailRequests ==
    { r \in Requests : ~r.dry_run /\ r.details_policy = "preserve" /\ r.file \in {1, 3} }

UploadWithFailure ==
    \E req \in FailRequests, fail_at \in 1..MaxFailAt :
        now < MaxFailRequests /\ Handle(req, fail_at)

SpecFail == Init /\ [][UploadWithFailure]_vars

-----------------------------------------------------------------------------
(* Concurrent requests: each is served by its own thread and connections.
   A SELECT outside a transaction reads the committed store; the writes of a
   batch are one write transaction (implicit BEGIN before the first INSERT or
   UPDATE, conn.commit() at the end) that other connections see at its
   commit; write transactions do not overlap. *)

Procs == {1, 2}

\* Requests to the two single-scope endpoints
ConcRequests ==
    { r \in Requests : /\ r.endpoint \in {"user", "admin"}
                       /\ ~r.dry_run
                       /\ r.tier_policy = "preserve"
                       /\ r.details_policy = "preserve"
                       /\ r.file \in {1, 3} }

Arrived(req) ==
    [ req |-> req, pc |-> "check", name_to_contact_id |-> <<>>,
      existing_details_map |-> <<>>, res |-> [status |-> "none"],
      resp |-> NoResponse ]

InitConc ==
    /\ contacts = <<>>
    /\ details = <<>>
    /\ ledger = <<>>
    /\ now = 0
    /\ last = NoResponse
    /\ procs \in [Procs -> { Arrived(r) : r \in ConcRequests }]
    /\ call = NoCall

\* The endpoint's SELECT on file_imports and its short-circuit
CheckLedger(p) ==
    /\ procs[p].pc = "check"
    /\ procs' = [procs EXCEPT ![p] =
            IF LedgerHit(ledger, procs[p].req)
            THEN [@ EXCEPT !.pc = "done", !.resp = Skipped(ledger, procs[p].req)]
            ELSE [@ EXCEPT !.pc = "load_contacts"]]
    /\ UNCHANGED <<contacts, details, ledger, now, last, call>>

\* cur = conn.execute('SELECT id, full_name FROM contacts ...')
LoadContactsStep(p) ==
    /\ procs[p].pc = "load_contacts"
    /\ procs' = [procs EXCEPT ![p] =
            [@ EXCEPT !.pc = "load_details",
                      !.name_to_contact_id =
                          LoadContacts(contacts, Options(procs[p].req, 0))]]
    /\ UNCHANGED <<contacts, details, ledger, now, last, call>>

\* cur = conn.execute('SELECT contact_id, category, content FROM
\* synthesized_entries ...')
LoadDetailsStep(p) ==
    /\ procs[p].pc = "load_details"
    /\ procs' = [procs EXCEPT ![p] =
            [@ EXCEPT !.pc = "merge",
                      !.existing_details_map =
                          LoadDetails(contacts, details, Options(procs[p].req, 0))]]
    /\ UNCHANGED <<contacts, details, ledger, now, last, call>>

\* The store and the process after its batch
Merged(p, res) ==
    /\ contacts' = res.contacts
    /\ details' = res.details
    /\ procs' = [procs EXCEPT ![p] = [@ EXCEPT !.pc = "persist", !.res = res]]

\* The two passes and the commit, decided on the maps loaded before
Merge(p) ==
    /\ procs[p].pc = "merge"
    /\ Merged(p, MergeFrom(contacts, details, procs[p].name_to_contact_id,
                           procs[p].existing_details_map,
                           Options(procs[p].req, 0), Files[procs[p].req.file]))
    /\ UNCHANGED <<ledger, now, last, call>>

\* The ledger and the process after the ledger insert
Persisted(p, lg) ==
    /\ ledger' = lg.rows
    /\ procs' = [procs EXCEPT ![p] =
            [@ EXCEPT !.pc = "done",
                      !.resp = Response(procs[p].req, procs[p].res, lg.raised)]]

\* The ledger insert and the response
Persist(p) ==
    /\ procs[p].pc = "persist"
    /\ Persisted(p, PersistLedger(ledger, procs[p].req, procs[p].res.status,
                                  now + 1, FALSE))
    /\ now' = now + 1
    /\ UNCHANGED <<contacts, details, last, call>>

NextConc ==
    \E p \in Procs :
        \/ CheckLedger(p)
        \/ LoadContactsStep(p)
        \/ LoadDetailsStep(p)
        \/ Merge(p)
        \/ Persist(p)

SpecConc == InitConc /\ [][NextConc]_vars
-----------------------------------------------------------------------------
(* Properties of requests handled one after another (Spec) *)

\* C2 (dry-run purity): a request with dry_run = true leaves the contacts
\* (their set and every tier), the details and the ledger as they were.
DryRunPurity ==
    [][last'.req.dry_run =>
        /\ contacts' = contacts
        /\ details' = details
        /\ ledger' = ledger]_vars

\* A preview that would have added contacts and details, over a store that
\* already holds some
DryRunPurityWitness ==
    /\ last.status = "preview"
    /\ last.stats.contacts_added > 0
    /\ last.stats.details_added > 0
    /\ Len(contacts) > 0

SameCounters(resp, res) ==
    /\ res.status = "success"
    /\ resp.stats = res.stats
    /\ resp.user_results = res.user_results

SameDetail(a, b) ==
    a.contact_id = b.contact_id /\ a.category = b.category /\ a.content = b.content

\* C4 (dedup totality): the store holds at most one detail per
\* (contact, category, content).
DedupTotality ==
    \A i, j \in 1..Len(details) : SameDetail(details[i], details[j]) => i = j

\* C5 (category closure): the category of every stored detail is one of the
\* 20 tokens of CATEGORY_ORDER.
CategoryClosure ==
    \A i \in 1..Len(details) : details[i].category \in VALID_CATEGORY_SET

\* C6 (contact uniqueness): no two contacts of one owner share a trimmed
\* name up to letter case.
ContactUniqueness ==
    \A i, j \in 1..Len(contacts) :
        /\ contacts[i].user_id = contacts[j].user_id
        /\ lower(strip(contacts[i].full_name)) = lower(strip(contacts[j].full_name))
        => i = j

\* A successful batch whose rows name, as "AL", the contact "Al" that an
\* earlier batch stored
ContactUniquenessWitness ==
    /\ last.status = "success"
    /\ last.req.file = 3
    /\ last.req.endpoint = "user"
    /\ last.stats.contacts_added = 0
    /\ last.stats.contacts_skipped > 0
    /\ \E i \in 1..Len(contacts) :
            contacts[i].full_name = "Al" /\ contacts[i].user_id = 1

\* C10 as stated: a ledger entry is added only by a successful request that
\* is neither a dry run nor forced.
LedgerWrittenOnlyUnforced ==
    [][ledger' # ledger =>
        /\ ~last'.req.dry_run
        /\ ~last'.req.force
        /\ last'.status = "success"]_vars

\* The step ends as the batch res does
DecidedBy(res) ==
    /\ last'.status = res.status
    /\ last'.stats = res.stats
    /\ contacts' = res.contacts
    /\ details' = res.details

\* C10, amended: a ledger entry is added only by a successful request that is
\* not a dry run (forced or not); a dry run or forced request is never
\* short-circuited, and when the ledger holds an entry for its file its
\* outcome is still that of the batch on the store alone.
LedgerWrittenOnlyOnSuccess ==
    [][/\ ledger' # ledger => (~last'.req.dry_run /\ last'.status = "success")
       /\ (last'.req.dry_run \/ last'.req.force) =>
            /\ last'.status # "skipped"
            /\ LedgerLookup(ledger, last'.req) # {} =>
                    DecidedBy(run_merge(contacts, details, Options(last'.req, 0),
                                        Files[last'.req.file]))]_vars

\* A forced request has run its batch to success and left a ledger entry of
\* its own beside the entry of an earlier request
LedgerWrittenOnlyOnSuccessWitness ==
    /\ last.req.force
    /\ last.status = "success"
    /\ Len(ledger) = 2
    /\ ledger[2].created_at = now
    /\ ledger[1].file_hash = 1
    /\ last.req.file = 2
    /\ last.stats.details_added > 0

-----------------------------------------------------------------------------
(* Repeated imports (SpecRepeat) *)

\* C1 (idempotence of upload): when a non-dry, unforced request has ended in
\* success and the next request uploads the same file to the same endpoint
\* and owner scope, again non-dry and unforced, that request is skipped and
\* adds no contact and no detail.
UploadIdempotence ==
    [][(/\ last.status = "success"
        /\ ~last.req.dry_run /\ ~last.req.force
        /\ ~last'.req.dry_run /\ ~last'.req.force
        /\ last'.req.endpoint = last.req.endpoint
        /\ last'.req.user = last.req.user
        /\ last'.req.file = last.req.file)
       => (/\ last'.status = "skipped"
           /\ contacts' = contacts
           /\ details' = details)]_vars

-----------------------------------------------------------------------------
(* Storage failures (SpecFail) *)

-----------------------------------------------------------------------------
(* Concurrent requests (SpecConc) *)

AllDone == \A p \in Procs : procs[p].pc = "done"

\* C7 (serialized find-or-create): when the concurrent requests have all
\* ended, no two contacts of one owner share a trimmed name up to letter
\* case.
SerializedFindOrCreate ==
    AllDone =>
        \A i, j \in 1..Len(contacts) :
            /\ contacts[i].user_id = contacts[j].user_id
            /\ Lower(norm(contacts[i].full_name)) = Lower(norm(contacts[j].full_name))
            => i = j

LedgerUnique(lg) ==
    \A i, j \in 1..Len(lg) :
        (lg[i].import_type = lg[j].import_type /\ lg[i].file_hash = lg[j].file_hash)
        => i = j

\* C9 (ledger uniqueness under races): in every interleaving the ledger has
\* at most one entry per (import kind, fingerprint); no step changes an
\* entry already there (its id is its position) and no ledger insert raises.
LedgerUniqueUnderRaces ==
    [][/\ LedgerUnique(ledger')
       /\ Len(ledger') >= Len(ledger)
       /\ \A i \in 1..Len(ledger) : ledger'[i] = ledger[i]
       /\ \A p \in Procs : ~procs'[p].resp.warned]_vars

\* Two requests with the same file and import kind both ran their batch to
\* success, and the ledger insert of the later one was a no-op
LedgerUniqueUnderRacesWitness ==
    /\ AllDone
    /\ \A p \in Procs : procs[p].resp.status = "success"
    /\ procs[1].req.file = procs[2].req.file
    /\ Len(ledger) = 1
    /\ now = 2

-----------------------------------------------------------------------------
(* Scope of the short-circuit (Spec) *)

\* The owner scope a request imports into: user 1 for the user endpoint, the
\* target user for the admin endpoint, 0 for all users
OwnerScope(req) == IF req.endpoint = "all" THEN 0 ELSE req.user

\* C11 (scope of the short-circuit): when the only ledger entry is the one a
\* successful admin import into one user's scope has just written, the next
\* upload of the same file for a different owner scope is not skipped.
SkipWithinScope ==
    [][(/\ last.req.endpoint = "admin"
        /\ last.status = "success"
        /\ Len(ledger) = 1
        /\ ledger[1].created_at = now
        /\ last'.req.file = last.req.file
        /\ OwnerScope(last'.req) # OwnerScope(last.req))
       => last'.status # "skipped"]_vars

-----------------------------------------------------------------------------
(* Tiers (Spec) *)

ValidTierCell(cell) == ToIntOr(0, cell) \in {1, 2, 3}

\* The rows of a table that name the contact c, up to case and blanks
RowsNaming(table, c) ==
    { i \in 1..Len(table.rows) :
        NameKey(norm(table.rows[i].contact_full_name)) = NameKey(norm(c.full_name)) }

\* C13 (invalid tier values): under overwrite, a stored contact that the
\* table names only in rows whose tier cell is not one of 1, 2, 3 keeps its
\* tier.
InvalidTierIgnored ==
    [][last'.req.tier_policy = "overwrite" =>
        \A i \in 1..Len(contacts) :
            (\A k \in RowsNaming(Files[last'.req.file], contacts[i]) :
                ~ValidTierCell(Files[last'.req.file].rows[k].contact_tier))
            => contacts'[i].tier = contacts[i].tier]_vars

-----------------------------------------------------------------------------
(* Conflict preview of run_merge_process (Spec) *)

\* The rows of a table that the second pass takes as detail rows and that
\* carry a name and a content
DetailRowsOf(table) ==
    { i \in 1..Len(table.rows) :
        /\ table.is_record_type =>
                RecordType(norm(table.rows[i].record_type)) = "SYNTHESIZED_DETAIL"
        /\ norm(table.rows[i].contact_full_name) # ""
        /\ norm(table.rows[i].detail_content) # "" }

\* The contact (by name key), category and content a detail row of
\* run_merge_process stands for
RowSignature(row) ==
    << NameKey(norm(row.contact_full_name)),
       IF norm(row.category) = "" THEN "Uncategorized" ELSE norm(row.category),
       norm(row.detail_content) >>

\* The store of user 1 holds a detail of that signature
StoredSignature(sig) ==
    \E d \in 1..Len(details) :
        /\ details[d].contact_id \in 1..Len(contacts)
        /\ contacts[details[d].contact_id].user_id = 1
        /\ NameKey(norm(contacts[details[d].contact_id].full_name)) = sig[1]
        /\ norm(details[d].category) = sig[2]
        /\ norm(details[d].content) = sig[3]

\* The detail rows whose signature is known from the store or from an
\* earlier row of the table
RepeatedRows(table) ==
    { i \in DetailRowsOf(table) :
        \/ StoredSignature(RowSignature(table.rows[i]))
        \/ \E j \in DetailRowsOf(table) :
                j < i /\ RowSignature(table.rows[j]) = RowSignature(table.rows[i]) }

\* The CONTACT rows of a record-type table that name a stored contact of
\* user 1 and carry a tier in 1..3
TierRows(table) ==
    { i \in 1..Len(table.rows) :
        /\ table.is_record_type
        /\ RecordType(norm(table.rows[i].record_type)) = "CONTACT"
        /\ ValidTierCell(table.rows[i].contact_tier)
        /\ \E c \in 1..Len(contacts) :
                /\ contacts[c].user_id = 1
                /\ RowsNaming(table, contacts[c]) # {}
                /\ i \in RowsNaming(table, contacts[c]) }

ConflictsOfType(resp, type) ==
    { k \in 1..Len(resp.conflicts) : resp.conflicts[k].type = type }

\* C14 (conflict preview): a dry run of run_merge_process answers preview
\* and lists one duplicate_detail conflict per detail row whose signature is
\* already known, and under overwrite a contact_tier_update conflict for
\* every CONTACT row that names a stored contact with a tier in 1..3.
ConflictPreview ==
    (last.req.endpoint = "user" /\ last.req.dry_run) =>
        /\ last.status = "preview"
        /\ Cardinality(ConflictsOfType(last, "duplicate_detail"))
                = Cardinality(RepeatedRows(Files[last.req.file]))
        /\ last.req.tier_policy = "overwrite" =>
                \A i \in TierRows(Files[last.req.file]) :
                    \E k \in ConflictsOfType(last, "contact_tier_update") :
                        /\ last.conflicts[k].name
                                = norm(Files[last.req.file].rows[i].contact_full_name)
                        /\ last.conflicts[k].to
                                = ToIntOr(0, Files[last.req.file].rows[i].contact_tier)

-----------------------------------------------------------------------------
(* Duplicate counting within a batch (Spec) *)

\* The name keys of the rows of a table that carry a name
DistinctNames(table) ==
    { NameKey(norm(table.rows[i].contact_full_name)) :
        i \in { k \in 1..Len(table.rows) :
                    norm(table.rows[k].contact_full_name) # "" } }

\* The signatures of the detail rows of a table
DistinctSignatures(table) ==
    { RowSignature(table.rows[i]) : i \in DetailRowsOf(table) }

\* The first request of a run is a legacy table handed to run_merge_process
\* under the preserve details policy, and it was merged (or previewed)
FirstLegacyImport ==
    /\ now = 1
    /\ last.req.endpoint = "user"
    /\ last.req.details_policy = "preserve"
    /\ ~Files[last.req.file].is_record_type
    /\ last.status \in {"success", "preview"}

-----------------------------------------------------------------------------
(* Rows without a name (Spec) *)

\* The rows of a table whose name cell is empty after trimming
NamelessRows(table) ==
    { i \in 1..Len(table.rows) : norm(table.rows[i].contact_full_name) = "" }

\* C16 (empty names): a row whose resolved contact name is empty after
\* trimming creates no contact and no detail and is counted exactly once in
\* rows_skipped_no_name, whatever its record type.
EmptyNames ==
    /\ \A i \in 1..Len(contacts) : norm(contacts[i].full_name) # ""
    /\ (last.req.endpoint = "user" /\ last.status \in {"success", "preview"}) =>
        last.stats.rows_skipped_no_name
            = Cardinality(NamelessRows(Files[last.req.file]))

-----------------------------------------------------------------------------
(* Header resolution: canon, has_logical and get_val over a header row *)

AlphaNumeric == LowerAlpha \o Digits

RECURSIVE KeepAlphaNumeric(_)
KeepAlphaNumeric(s) ==
    IF s = "" THEN ""
    ELSE (IF IsIn(AlphaNumeric, Head(s)) THEN Head(s) ELSE "")
            \o KeepAlphaNumeric(Tail(s))

\* re.sub(r'[^a-z0-9]', '', (name or '').lower())
canon(name) == KeepAlphaNumeric(lower(name))

\* s.startswith(prefix)
startswith(s, prefix) ==
    Len(prefix) <= Len(s) /\ SubSeq(s, 1, Len(prefix)) = prefix

\* Fault: the truncated spellings are not among the candidates
header_mappings_untruncated(logical_key) ==
    CASE logical_key = "record_type" -> <<"record_type">>
      [] logical_key = "contact_full_name" ->
            <<"contact_full_name", "full_name", "name">>
      [] logical_key = "contact_tier" -> <<"contact_tier", "tier">>
      [] logical_key = "category" -> <<"category">>
      [] logical_key = "detail_content" -> <<"detail_content", "content">>
      [] logical_key = "entry_date" ->
            <<"log_timestamp", "created_at", "entry_date", "timestamp">>
      [] logical_key = "raw_note_content" ->
            <<"raw_note_content", "raw_note", "note_content", "note">>
      [] OTHER -> <<logical_key>>

\* header_mappings.get(logical_key, [logical_key]) of get_val
header_mappings(logical_key) ==
    CASE logical_key = "record_type" -> <<"record_type">>
      [] logical_key = "contact_full_name" ->
            <<"contact_full_name", "contact_full", "full_name", "name">>
      [] logical_key = "contact_tier" -> <<"contact_tier", "tier">>
      [] logical_key = "category" -> <<"category">>
      [] logical_key = "detail_content" ->
            <<"detail_content", "detail_conte", "content">>
      [] logical_key = "entry_date" ->
            <<"log_timestamp", "created_at", "entry_date", "timestamp">>
      [] logical_key = "raw_note_content" ->
            <<"raw_note_content", "raw_note", "note_content", "note">>
      [] OTHER -> <<logical_key>>

\* The candidates of has_logical
logical_candidates(logical_key) ==
    IF logical_key = "record_type" THEN <<"record_type", "record_t", "type">>
    ELSE <<logical_key>>

\* The header spellings the model draws header rows from, and their
\* canonical and lower-case forms
HeaderPool ==
    { "record_type", "contact_full_name", "detail_content", "name", "Name",
      " name", "Contact Full Name", "contact", "Type", "" }

\* The logical fields run_merge_process reads from a record-type table
LogicalKeys ==
    { "record_type", "contact_full_name", "contact_tier", "category",
      "detail_content", "log_timestamp" }

\* The texts header resolution meets: the headers, stripped or not, and the
\* candidates.  canon and lower are tabulated once over them.
HeaderTexts ==
    HeaderPool \cup { strip(h) : h \in HeaderPool }
        \cup {"contact_full", "detail_conte"}
        \cup UNION { { header_mappings(k)[i] : i \in 1..Len(header_mappings(k)) } :
                        k \in LogicalKeys }
        \cup { logical_candidates("record_type")[i] : i \in 1..3 }

CanonTable == [ h \in HeaderTexts |-> canon(h) ]
LowerHeaderTable == [ h \in HeaderTexts |-> lower(h) ]
StripHeaderTable == [ h \in HeaderTexts |-> strip(h) ]

Canon(h) == IF h \in HeaderTexts THEN CanonTable[h] ELSE canon(h)
LowerHeader(h) == IF h \in HeaderTexts THEN LowerHeaderTable[h] ELSE lower(h)
StripHeader(h) == IF h \in HeaderTexts THEN StripHeaderTable[h] ELSE strip(h)

\* fieldnames = [f.strip() for f in raw_fieldnames]
StripAll(raw_fieldnames) ==
    [ i \in 1..Len(raw_fieldnames) |-> StripHeader(raw_fieldnames[i]) ]

\* A row of csv.DictReader: the cells keyed by the raw header, the last of
\* several columns with one header wins
DictRow(raw_fieldnames, cells) ==
    [ h \in { raw_fieldnames[i] : i \in 1..Len(raw_fieldnames) } |->
        cells[CHOOSE i \in 1..Len(raw_fieldnames) :
                /\ raw_fieldnames[i] = h
                /\ \A j \in 1..Len(raw_fieldnames) :
                        raw_fieldnames[j] = h => j <= i] ]

\* row.get(header, default)
row_get(row, header, default) ==
    IF header \in DOMAIN row THEN row[header] ELSE default

\* header in candidates
ExactMatch(header, candidates) ==
    \E k \in 1..Len(candidates) : header = candidates[k]

\* header.lower() == cand.lower() for some candidate
CaseInsensitiveMatch(header, candidates) ==
    \E k \in 1..Len(candidates) : LowerHeader(header) = LowerHeader(candidates[k])

\* ch == cc or ch.startswith(cc) or cc.startswith(ch) for some candidate
CanonMatch(header, candidates) ==
    \E k \in 1..Len(candidates) :
        \/ Canon(header) = Canon(candidates[k])
        \/ startswith(Canon(header), Canon(candidates[k]))
        \/ startswith(Canon(candidates[k]), Canon(header))

StepMatch(step, header, candidates) ==
    CASE step = 1 -> ExactMatch(header, candidates)
      [] step = 2 -> CaseInsensitiveMatch(header, candidates)
      [] step = 3 -> CanonMatch(header, candidates)

\* for header in fieldnames: the position of the first header that matches
\* at the given step, 0 when the loop ends without one
RECURSIVE FirstHeader(_, _, _, _)
FirstHeader(fieldnames, candidates, step, i) ==
    IF i > Len(fieldnames) THEN 0
    ELSE IF StepMatch(step, fieldnames[i], candidates) THEN i
    ELSE FirstHeader(fieldnames, candidates, step, i + 1)

OrElse(i, j) == IF i # 0 THEN i ELSE j

\* The three loops of get_val in turn: the position of the header it reads,
\* 0 when it falls through to `return default`
resolve_header(fieldnames, candidates) ==
    OrElse(FirstHeader(fieldnames, candidates, 1, 1),
           OrElse(FirstHeader(fieldnames, candidates, 2, 1),
                  FirstHeader(fieldnames, candidates, 3, 1)))

\* return norm(row.get(header, default)), or default after the loops
read_header(fieldnames, row, i, default) ==
    IF i = 0 THEN default ELSE norm(row_get(row, fieldnames[i], default))

\* get_val(row, logical_key) with the header row it closes over
get_val_by_headers(fieldnames, row, logical_key) ==
    read_header(fieldnames, row,
                resolve_header(fieldnames, header_mappings(logical_key)), "")

\* has_logical(logical_key) with the header row it closes over
has_logical(fieldnames, logical_key) ==
    \E i \in 1..Len(fieldnames) :
        CanonMatch(fieldnames[i], logical_candidates(logical_key))

-----------------------------------------------------------------------------
(* Reading one data row of an uploaded table through its header row *)

MaxHeaders == 3

\* The data rows: the cells under the first headers of a header row
CellRows == { <<"a", " b ", "c", "d">>, <<" b ", "", "a", "c">> }

HeaderRows == UNION { [1..n -> HeaderPool] : n \in 1..MaxHeaders }

\* reader = csv.DictReader(...): a header row and one data row under it
Parsed(raw_fieldnames, cells) ==
    [ fn |-> "DictReader", raw_fieldnames |-> raw_fieldnames, cells |-> cells ]

\* What the engine reads from the row: the header each logical field
\* resolves to, the value of each logical field, and the format of the table
Resolved(raw_fieldnames, cells, fieldnames, row) ==
    [ fn |-> "get_val", raw_fieldnames |-> raw_fieldnames, cells |-> cells,
      header |-> [ k \in LogicalKeys |->
                    resolve_header(fieldnames, header_mappings(k)) ],
      value |-> [ k \in LogicalKeys |-> get_val_by_headers(fieldnames, row, k) ],
      is_record_type |-> has_logical(fieldnames, "record_type") ]

InitHeaders ==
    /\ contacts = <<>>
    /\ details = <<>>
    /\ ledger = <<>>
    /\ now = 0
    /\ last = NoResponse
    /\ procs = <<>>
    /\ call \in { Parsed(h, SubSeq(c, 1, Len(h))) : h \in HeaderRows, c \in CellRows }

ReadRow ==
    /\ call.fn = "DictReader"
    /\ call' = Resolved(call.raw_fieldnames, call.cells,
                        StripAll(call.raw_fieldnames),
                        DictRow(call.raw_fieldnames, call.cells))
    /\ UNCHANGED <<contacts, details, ledger, now, last, procs>>

SpecHeaders == InitHeaders /\ [][ReadRow]_vars

-----------------------------------------------------------------------------
(* Header tolerance (SpecHeaders) *)

\* The truncated spelling of a header
Truncate(h) ==
    IF h = "contact_full_name" THEN "contact_full"
    ELSE IF h = "detail_content" THEN "detail_conte"
    ELSE h

TruncatedHeaders(raw_fieldnames) ==
    [ i \in 1..Len(raw_fieldnames) |-> Truncate(raw_fieldnames[i]) ]

\* The same read as Resolved, under another header row
SameRead(res, raw_fieldnames) ==
    /\ \A k \in LogicalKeys :
            get_val_by_headers(StripAll(raw_fieldnames),
                               DictRow(raw_fieldnames, res.cells), k)
                = res.value[k]
    /\ has_logical(StripAll(raw_fieldnames), "record_type") = res.is_record_type

\* C17 (header tolerance): a table whose headers are the truncated spellings
\* contact_full and detail_conte gives, for every row and every logical
\* field, the values that the same table gives under the headers
\* contact_full_name and detail_content, and is of the same format.
HeaderTolerance ==
    call.fn = "get_val" => SameRead(call, TruncatedHeaders(call.raw_fieldnames))

\* A record-type table with both full headers has been read: the name and
\* the detail come from their columns
HeaderToleranceWitness ==
    /\ call.fn = "get_val"
    /\ call.raw_fieldnames = <<"record_type", "contact_full_name", "detail_content">>
    /\ call.is_record_type
    /\ call.value["contact_full_name"] = "b"
    /\ call.value["detail_content"] = "c"
    /\ SameRead(call, <<"record_type", "contact_full", "detail_conte">>)

-----------------------------------------------------------------------------
(* Header resolution order (SpecHeaders) *)

\* The positions of the headers that match at a step
MatchingAt(step, fieldnames, candidates) ==
    { i \in 1..Len(fieldnames) : StepMatch(step, fieldnames[i], candidates) }

\* The first step at which some header matches, 0 when none does
EarliestStep(fieldnames, candidates) ==
    IF MatchingAt(1, fieldnames, candidates) # {} THEN 1
    ELSE IF MatchingAt(2, fieldnames, candidates) # {} THEN 2
    ELSE IF MatchingAt(3, fieldnames, candidates) # {} THEN 3
    ELSE 0

\* The header chosen for a field matches at the earliest step at which any
\* header matches; no header is chosen when none matches
ChosenAtEarliestStep(res, fieldnames, candidates, k) ==
    IF EarliestStep(fieldnames, candidates) = 0 THEN res.header[k] = 0
    ELSE res.header[k] \in
            MatchingAt(EarliestStep(fieldnames, candidates), fieldnames, candidates)

\* The value of a field is the trimmed cell of a column under the chosen
\* header, and the empty string when no header is chosen
ChosenHeaderRead(res, fieldnames, k) ==
    IF res.header[k] = 0 THEN res.value[k] = ""
    ELSE \E j \in 1..Len(fieldnames) :
            /\ fieldnames[j] = fieldnames[res.header[k]]
            /\ res.value[k] = norm(res.cells[j])

\* The order of the steps alone: which header is chosen
ChosenInStepOrder ==
    call.fn = "get_val" =>
        \A k \in LogicalKeys :
            ChosenAtEarliestStep(call, StripAll(call.raw_fieldnames),
                                 header_mappings(k), k)

\* C18 (header resolution order): for every header row and logical field,
\* get_val reads the header chosen by the first step that finds one (exact
\* literal match, case-insensitive exact match, canonical match with
\* equality or a prefix relation either way), never a header that matches
\* only at a later step, and gives the empty string when no header matches.
ResolutionOrder ==
    call.fn = "get_val" =>
        \A k \in LogicalKeys :
            /\ ChosenAtEarliestStep(call, StripAll(call.raw_fieldnames),
                                    header_mappings(k), k)
            /\ ChosenHeaderRead(call, StripAll(call.raw_fieldnames), k)

-----------------------------------------------------------------------------
(* The record classifier applied to a record_type cell (SpecClassify) *)

MaxPieces == 2

\* The pieces the record_type cells of the model are made of
TypePieces ==
    { " ", "_", "x", "contact", "CONTACT", "Detail", "synthesized",
      "SYNTHESIZED_DETAIL", "raw", "Note", "RAW_NOTE" }

RECURSIVE Concat(_)
Concat(pieces) == IF pieces = <<>> THEN "" ELSE Head(pieces) \o Concat(Tail(pieces))

\* The cells: up to MaxPieces pieces in a row, the empty cell included
TypeCells == { Concat(p) : p \in UNION { [1..n -> TypePieces] : n \in 0..MaxPieces } }

InitClassify ==
    /\ contacts = <<>>
    /\ details = <<>>
    /\ ledger = <<>>
    /\ now = 0
    /\ last = NoResponse
    /\ procs = <<>>
    /\ call \in { [ fn |-> "cell", value |-> c ] : c \in TypeCells }

Classify ==
    /\ call.fn = "cell"
    /\ call' = [ fn |-> "classify_record_type", value |-> call.value,
                 result |-> classify_record_type(call.value) ]
    /\ UNCHANGED <<contacts, details, ledger, now, last, procs>>

SpecClassify == InitClassify /\ [][Classify]_vars

\* The rules of the classifier on the trimmed, upper-cased value v
ClassifiedAs(v, result) ==
    /\ result \in {"CONTACT", "SYNTHESIZED_DETAIL", "RAW_NOTE", ""}
    /\ v \in {"CONTACT", "SYNTHESIZED_DETAIL", "RAW_NOTE"} => result = v
    /\ Contains(v, "CONTACT") => result = "CONTACT"
    /\ (/\ ~Contains(v, "CONTACT")
        /\ Contains(v, "SYNTHESIZED") \/ Contains(v, "DETAIL"))
            => result = "SYNTHESIZED_DETAIL"
    /\ (/\ ~Contains(v, "CONTACT")
        /\ ~Contains(v, "SYNTHESIZED")
        /\ ~Contains(v, "DETAIL")
        /\ Contains(v, "RAW") /\ Contains(v, "NOTE"))
            => result = "RAW_NOTE"
    /\ (/\ ~Contains(v, "CONTACT")
        /\ ~Contains(v, "SYNTHESIZED")
        /\ ~Contains(v, "DETAIL")
        /\ ~(Contains(v, "RAW") /\ Contains(v, "NOTE")))
            => result = ""

\* C19 (record classifier): classify_record_type returns exactly one of
\* CONTACT, SYNTHESIZED_DETAIL, RAW_NOTE or the empty string; an exact
\* case-insensitive match of the trimmed value wins, and the substring rules
\* apply in the order CONTACT, then SYNTHESIZED or DETAIL, then RAW with
\* NOTE, so a value containing CONTACT and DETAIL is a CONTACT.
RecordClassifier ==
    call.fn = "classify_record_type" =>
        ClassifiedAs(upper(strip(call.value)), call.result)

\* A cell containing both DETAIL and CONTACT has been classified as CONTACT
RecordClassifierWitness ==
    /\ call.fn = "classify_record_type"
    /\ call.value = "Detailcontact"
    /\ call.result = "CONTACT"

-----------------------------------------------------------------------------
(* The canonicalizer applied to any value (SpecCategory) *)

MaxCategoryPieces == 2

\* A Python value: a string, or a value of another type (None, a number, a
\* list), of which only the type matters
StrValue(text) == [ kind |-> "str", text |-> text ]
OtherValue(kind) == [ kind |-> kind, text |-> "" ]

\* if not isinstance(category_name, str): return Categories.OTHERS, then the
\* rules on a string
canonicalize_value(value) ==
    IF value.kind # "str" THEN "Others" ELSE canonicalize_category(value.text)

\* The pieces the category labels of the model are made of
CategoryPieces ==
    { " ", "_", "x", "social", "Social", "GOALS", "Information", "gaps",
      "Information gaps", "hobbies", "work", "WORK history", "Others" }

\* The labels: up to MaxCategoryPieces pieces in a row, the empty label
\* included, and the canonical tokens themselves
CategoryLabels ==
    { Concat(p) : p \in UNION { [1..n -> CategoryPieces] : n \in 0..MaxCategoryPieces } }
        \cup VALID_CATEGORY_SET

CategoryValues ==
    { StrValue(t) : t \in CategoryLabels }
        \cup { OtherValue(k) : k \in {"NoneType", "int", "list"} }

InitCategory ==
    /\ contacts = <<>>
    /\ details = <<>>
    /\ ledger = <<>>
    /\ now = 0
    /\ last = NoResponse
    /\ procs = <<>>
    /\ call \in { [ fn |-> "label", value |-> v ] : v \in CategoryValues }

Canonicalize ==
    /\ call.fn = "label"
    /\ call' = [ fn |-> "canonicalize_category", value |-> call.value,
                 result |-> canonicalize_value(call.value) ]
    /\ UNCHANGED <<contacts, details, ledger, now, last, procs>>

SpecCategory == InitCategory /\ [][Canonicalize]_vars

\* The canonical tokens equal to a name when letter case is ignored
SameIgnoringCase(name) ==
    { cat \in VALID_CATEGORY_SET : lower(cat) = lower(name) }

\* The rules on the name with its spaces replaced, the first that applies
ChosenByFirstRule(name, result) ==
    IF name \in VALID_CATEGORY_SET THEN result = name
    ELSE IF SameIgnoringCase(name) # {} THEN result \in SameIgnoringCase(name)
    ELSE IF lower(name) \in DOMAIN SYNONYM_TO_CATEGORY
         THEN result = SYNONYM_TO_CATEGORY[lower(name)]
    ELSE result = "Others"

\* C20 (canonicalizer totality): for every input, a string or not,
\* canonicalize_category returns a member of the 20-token canonical set,
\* chosen by the first rule that applies: exact match after replacing spaces
\* with underscores, case-insensitive match, synonym table, else Others.
CanonicalizerTotality ==
    call.fn = "canonicalize_category" =>
        /\ Cardinality(VALID_CATEGORY_SET) = 20
        /\ call.result \in VALID_CATEGORY_SET
        /\ call.value.kind # "str" => call.result = "Others"
        /\ call.value.kind = "str" =>
                ChosenByFirstRule(replace_space_underscore(strip(call.value.text)),
                                  call.result)

\* A padded synonym in capitals has been mapped onto its canonical token
CanonicalizerTotalityWitness ==
    /\ call.fn = "canonicalize_category"
    /\ call.value = StrValue("WORK history ")
    /\ call.result = "Professional_Background"

-----------------------------------------------------------------------------
(* The heuristic text classifier: infer_category_from_text and the regular
   expressions it searches the lower-cased text for *)

\* \w of re, on the characters of the model
WordChars ==
    { Char(LowerAlpha \o UpperAlpha \o Digits \o "_", i) : i \in 1..63 }

\* [a-z0-9._%+-] and [a-z0-9.-] and [a-z] of the e-mail pattern
LocalChars == { Char(LowerAlpha \o Digits \o "._%+-", i) : i \in 1..41 }
DomainChars == { Char(LowerAlpha \o Digits \o ".-", i) : i \in 1..38 }
LetterChars == { Char(LowerAlpha, i) : i \in 1..26 }

\* the character at a position is a word character; no position outside the
\* text is
WordAt(t, i) == i \in 1..Len(t) /\ Char(t, i) \in WordChars

\* \b just before position i
Boundary(t, i) == WordAt(t, i - 1) # WordAt(t, i)

\* the literal stands at position i
LiteralAt(t, i, lit) ==
    i + Len(lit) - 1 <= Len(t) /\ SubSeq(t, i, i + Len(lit) - 1) = lit

\* every character from position i to position j is of the class
AllIn(t, i, j, class) == \A k \in i..j : Char(t, k) \in class

\* re.search(rf"\b{re.escape(kw)}\b", t)
WordMatch(t, kw) ==
    \E i \in 1..(Len(t) - Len(kw) + 1) :
        LiteralAt(t, i, kw) /\ Boundary(t, i) /\ Boundary(t, i + Len(kw))

\* re.search(r"\b[a-z0-9._%+-]+@[a-z0-9.-]+\.[a-z]{2,}\b", t): the local
\* part from s to the "@" at position a, the domain up to the "." at position
\* p, and letters up to position e
EmailMatch(t) ==
    \E a \in 2..(Len(t) - 4) :
        /\ Char(t, a) = "@"
        /\ \E s \in 1..(a - 1) : AllIn(t, s, a - 1, LocalChars) /\ Boundary(t, s)
        /\ \E p \in (a + 2)..(Len(t) - 2) :
            /\ Char(t, p) = "."
            /\ AllIn(t, a + 1, p - 1, DomainChars)
            /\ \E e \in (p + 2)..Len(t) :
                    AllIn(t, p + 1, e, LetterChars) /\ Boundary(t, e + 1)

\* re.search(r"\bhttps?://\S+", t)
UrlMatch(t) ==
    \E i \in 1..Len(t) : \E scheme \in {"http://", "https://"} :
        /\ LiteralAt(t, i, scheme)
        /\ Boundary(t, i)
        /\ i + Len(scheme) <= Len(t)
        /\ Char(t, i + Len(scheme)) \notin Whitespace

\* re.search(r"\bto\s+do\b", t)
ToDoMatch(t) ==
    \E i \in 1..Len(t) : \E j \in (i + 3)..Len(t) :
        /\ LiteralAt(t, i, "to") /\ Boundary(t, i)
        /\ AllIn(t, i + 2, j - 1, Whitespace)
        /\ LiteralAt(t, j, "do") /\ Boundary(t, j + 2)

\* 1) the structural cues
AdminCue(t) ==
    \/ EmailMatch(t)
    \/ UrlMatch(t)
    \/ Contains(t, "linkedin.com")
    \/ LiteralAt(t, 1, "linkedin:")

resume_terms == <<
    "intern", "research assistant", "assistant", "ui/ux", "ux", "adobe xd",
    "organising committee", "organizing committee", "vice-president", "aiesec",
    "conducted", "headed", "orientation", "data collection", "projects",
    "experience", "member of", "marketing", "engineer", "manager", "school",
    "university", "managed", "organized", "organised", "led", "lead",
    "committee", "position" >>

\* 2) any(term in t for term in resume_terms)
ResumeCue(t) == \E k \in 1..Len(resume_terms) : Contains(t, resume_terms[k])

\* The patterns of actionable_patterns that are a literal between two \b
actionable_words == <<
    "follow-up", "follow up", "need to", "plan to", "schedule", "remind",
    "let's", "please", "next week", "ETA", "due" >>

\* 3) any(re.search(p, t) for p in actionable_patterns)
ActionableCue(t) ==
    \/ ToDoMatch(t)
    \/ \E k \in 1..Len(actionable_words) : WordMatch(t, actionable_words[k])
    \/ LiteralAt(t, 1, "action:")
    \/ LiteralAt(t, 1, "action item:")

KEYWORD_CATEGORY_MAP == <<
    [ category |-> "Actionable", keywords |-> <<
        "todo", "follow up", "follow-up", "next week", "schedule", "remind",
        "arrange", "set up", "book", "plan", "meet", "call", "email",
        "action item", "due", "deadline", "ASAP", "to-do"
      >> ],
    [ category |-> "Goals", keywords |-> <<
        "goal", "aim", "objective", "wants to", "plans to", "hopes to",
        "target", "ambition", "aspire", "intend to"
      >> ],
    [ category |-> "Relationship_Strategy", keywords |-> <<
        "approach", "keep in touch", "build", "nurture", "stay connected",
        "check in", "best to", "strategy", "reach out", "touch base"
      >> ],
    [ category |-> "Social", keywords |-> <<
        "party", "event", "dinner", "drinks", "hang out", "friends", "club",
        "wedding", "celebration", "gathering", "meetup", "bbt party"
      >> ],
    [ category |-> "Wellbeing", keywords |-> <<
        "health", "exercise", "stress", "anxiety", "sleep", "diet", "mental",
        "wellbeing", "well-being", "therapy", "gym", "workout"
      >> ],
    [ category |-> "Avocation", keywords |-> <<
        "likes", "enjoys", "hobby", "hobbies", "interest", "interests",
        "favorite", "favourite", "music", "sport", "movie", "hiking", "food",
        "cuisine", "travel", "coffee", "tea", "bubble tea", "bbt",
        "nasi lemak", "sashimi", "strawberries", "mint ice cream"
      >> ],
    [ category |-> "Professional_Background", keywords |-> <<
        "work", "job", "career", "role", "company", "employer", "startup",
        "industry", "boss", "colleague", "dentist", "engineer", "founder",
        "managed", "organized", "organised", "led", "lead", "committee",
        "aiesec", "internship", "intern", "cv", "resume", "position",
        "experience", "project", "orientation", "data collection", "research"
      >> ],
    [ category |-> "Environment_And_Lifestyle", keywords |-> <<
        "lives", "living", "apartment", "house", "city", "singapore",
        "commute", "car", "pet", "lifestyle", "neighborhood", "neighbourhood"
      >> ],
    [ category |-> "Psychology_And_Values", keywords |-> <<
        "values", "belief", "personality", "introvert", "extrovert",
        "principle", "priority", "ethos", "mindset"
      >> ],
    [ category |-> "Communication_Style", keywords |-> <<
        "prefers text", "prefers call", "communication", "responds", "reply",
        "tone", "style", "email vs", "whatsapp", "fast reply", "slow to reply"
      >> ],
    [ category |-> "Challenges_And_Development", keywords |-> <<
        "challenge", "difficulty", "struggle", "learning", "improve",
        "development", "working on", "needs help"
      >> ],
    [ category |-> "Deeper_Insights", keywords |-> <<
        "pattern", "tends to", "usually", "often", "underlying", "insight",
        "tendency"
      >> ],
    [ category |-> "Financial_Situation", keywords |-> <<
        "salary", "income", "bonus", "money", "finance", "budget", "savings",
        "debt", "expenses"
      >> ],
    [ category |-> "Admin_Matters", keywords |-> <<
        "address", "email", "phone", "birthday", "contact", "handle",
        "passport", "booking ref", "reservation", "logistics", "linkedin",
        "url", "website"
      >> ],
    [ category |-> "ESTABLISHED_PATTERNS", keywords |-> <<
        "always", "every", "habit", "routine", "pattern", "regularly",
        "weekly", "daily"
      >> ],
    [ category |-> "CORE_IDENTITY", keywords |-> <<
        "identity", "who he is", "who she is", "self", "core", "background"
      >> ],
    [ category |-> "Information gaps", keywords |-> <<
        "unknown", "not sure", "need to find", "unclear", "missing", "TBD",
        "to be decided"
      >> ],
    [ category |-> "Memory anchors", keywords |-> <<
        "remember", "note", "key detail", "anchor", "remember to"
      >> ],
    [ category |-> "POSITIONALITY", keywords |-> <<
        "status", "role in", "position", "senior", "junior", "cpo", "vp",
        "vice-president", "president"
      >> ],
    [ category |-> "Others", keywords |-> <<
        "misc", "other"
      >> ] >>

\* for kw in keywords: the entry has a keyword that the text holds
EntryMatch(t, entry) ==
    \E k \in 1..Len(entry.keywords) : WordMatch(t, entry.keywords[k])

\* 4) for cat, keywords in KEYWORD_CATEGORY_MAP: the first entry that
\* matches from entry n on, Others when the loop ends
RECURSIVE KeywordCategory(_, _)
KeywordCategory(t, n) ==
    IF n > Len(KEYWORD_CATEGORY_MAP) THEN "Others"
    ELSE IF EntryMatch(t, KEYWORD_CATEGORY_MAP[n])
         THEN KEYWORD_CATEGORY_MAP[n].category
    ELSE KeywordCategory(t, n + 1)

\* The checks on the lower-cased text, in turn
infer_from_lower(t) ==
    IF t = "" THEN "Others"
    ELSE IF AdminCue(t) THEN "Admin_Matters"
    ELSE IF ResumeCue(t) THEN "Professional_Background"
    ELSE IF ActionableCue(t) THEN "Actionable"
    ELSE KeywordCategory(t, 1)

\* t = (text or '').lower()
infer_category_from_text(text) == infer_from_lower(lower(text))

-----------------------------------------------------------------------------
(* The heuristic classifier applied to a detail text (SpecInfer) *)

MaxPhrases == 2

\* The phrases the detail texts of the model are made of
Phrases ==
    { "Headed the orientation committee and organized data collection for AIESEC",
      "al@x.io", "https://x.io", "see linkedin.com/in/al", "Please call",
      "follow-up", "to  do", "Scheduled", "ETA", "TBD", "due", "dinner",
      "Loves tea", "goal", "x" }

\* The phrases of a sequence with a space between them
RECURSIVE JoinPhrases(_)
JoinPhrases(p) ==
    IF p = <<>> THEN ""
    ELSE IF Len(p) = 1 THEN p[1]
    ELSE p[1] \o " " \o JoinPhrases(Tail(p))

\* The texts: up to MaxPhrases phrases, the empty text included
DetailTexts ==
    { JoinPhrases(p) : p \in UNION { [1..n -> Phrases] : n \in 0..MaxPhrases } }

InitInfer ==
    /\ contacts = <<>>
    /\ details = <<>>
    /\ ledger = <<>>
    /\ now = 0
    /\ last = NoResponse
    /\ procs = <<>>
    /\ call \in { [ fn |-> "text", text |-> t ] : t \in DetailTexts }

Infer ==
    /\ call.fn = "text"
    /\ call' = [ fn |-> "infer_category_from_text", text |-> call.text,
                 result |-> infer_category_from_text(call.text) ]
    /\ UNCHANGED <<contacts, details, ledger, now, last, procs>>

SpecInfer == InitInfer /\ [][Infer]_vars

-----------------------------------------------------------------------------
(* Priority of the cues (SpecInfer) *)

\* The text holds a cue, letter case ignored
HoldsWord(text, word) == WordMatch(lower(text), lower(word))

HoldsActionableCue(text) ==
    \/ ToDoMatch(lower(text))
    \/ \E k \in 1..Len(actionable_words) : HoldsWord(text, actionable_words[k])
    \/ LiteralAt(lower(text), 1, "action:")
    \/ LiteralAt(lower(text), 1, "action item:")

\* The entries of the keyword table with a keyword that the text holds
MatchingEntries(text) ==
    { n \in 1..Len(KEYWORD_CATEGORY_MAP) :
        \E k \in 1..Len(KEYWORD_CATEGORY_MAP[n].keywords) :
            HoldsWord(text, KEYWORD_CATEGORY_MAP[n].keywords[k]) }

\* The category of the entries' first, Others when there is none
FirstEntry(entries) ==
    IF entries = {} THEN "Others" ELSE KEYWORD_CATEGORY_MAP[Min(entries)].category

\* The cues that the lower-cased text matches as the patterns are written
\* decide in the order of their kinds
CuesInOrder ==
    call.fn = "infer_category_from_text" =>
        /\ AdminCue(lower(call.text)) => call.result = "Admin_Matters"
        /\ (~AdminCue(lower(call.text)) /\ ResumeCue(lower(call.text)))
                => call.result = "Professional_Background"
        /\ (/\ ~AdminCue(lower(call.text))
            /\ ~ResumeCue(lower(call.text))
            /\ ActionableCue(lower(call.text)))
                => call.result = "Actionable"

\* C21 (heuristic classifier priority): an e-mail address, URL or linkedin
\* token gives Admin_Matters; otherwise a resume/work term gives
\* Professional_Background; otherwise an actionable cue gives Actionable;
\* otherwise the first matching entry of the keyword table wins; otherwise
\* Others.  The AIESEC sentence gives Professional_Background.
HeuristicPriority ==
    call.fn = "infer_category_from_text" =>
        /\ call.result =
            IF AdminCue(lower(call.text)) THEN "Admin_Matters"
            ELSE IF ResumeCue(lower(call.text)) THEN "Professional_Background"
            ELSE IF HoldsActionableCue(call.text) THEN "Actionable"
            ELSE FirstEntry(MatchingEntries(call.text))
        /\ call.text = "Headed the orientation committee and organized data collection for AIESEC"
                => call.result = "Professional_Background"

-----------------------------------------------------------------------------
(* normalize_ai_output: the categories of an AI proposal made canonical, its
   details re-split by the heuristic classifier and merged by category *)

\* The detail texts of the proposals of the model, with their inferred
\* category and their d.strip().lower() tabulated once
ProposalTexts == { "Loves tea", " loves TEA ", "dinner", "x" }

InferTable == [ d \in ProposalTexts |-> infer_category_from_text(d) ]
DetailKeyTable == [ d \in ProposalTexts |-> lower(strip(d)) ]

Inferred(d) ==
    IF d \in ProposalTexts THEN InferTable[d] ELSE infer_category_from_text(d)
DetailKey(d) ==
    IF d \in ProposalTexts THEN DetailKeyTable[d] ELSE lower(strip(d))

\* Fault: the AI's bucket is kept whatever the classifier infers
final_cat_of_bucket(cat, inferred) ==
    IF cat \notin VALID_CATEGORY_SET \/ cat = "Others" THEN inferred ELSE cat

\* The category of one detail: the inference under the bucket Others, else
\* final_cat = cat if inferred == cat or inferred == Categories.OTHERS else inferred
final_cat(cat, inferred) ==
    IF cat \notin VALID_CATEGORY_SET \/ cat = "Others" THEN inferred
    ELSE IF inferred = cat \/ inferred = "Others" THEN cat
    ELSE inferred

\* for d in details: normalized_updates.append({"category": ..., "details": [d]})
RECURSIVE SplitDetails(_, _, _)
SplitDetails(cat, item_details, i) ==
    IF i > Len(item_details) THEN <<>>
    ELSE << [ category |-> final_cat(cat, Inferred(item_details[i].text)),
              detail |-> item_details[i].text ] >>
            \o SplitDetails(cat, item_details, i + 1)

\* for item in updates: the entries of normalized_updates
RECURSIVE SplitItems(_, _)
SplitItems(updates, i) ==
    IF i > Len(updates) THEN <<>>
    ELSE SplitDetails(canonicalize_value(updates[i].category),
                      updates[i].details, 1)
            \o SplitItems(updates, i + 1)

\* the position of the group of a category in merged, 0 when it has none
GroupOf(merged, c) ==
    IF \E g \in 1..Len(merged) : merged[g].category = c
    THEN CHOOSE g \in 1..Len(merged) : merged[g].category = c
    ELSE 0

\* if all(d.strip().lower() != e.strip().lower() for e in existed):
\*     existed.append(d)
AddDetailTo(existed, d) ==
    IF \A e \in 1..Len(existed) : DetailKey(d) # DetailKey(existed[e])
    THEN Append(existed, d) ELSE existed

\* Fault: every entry opens a group of its own
AppendGroup(merged, g, entry) ==
    Append(merged, [ category |-> entry.category, details |-> <<entry.detail>> ])

\* existed = merged.setdefault(c, []), then the detail added to it
MergeEntry(merged, g, entry) ==
    IF g = 0
    THEN Append(merged, [ category |-> entry.category, details |-> <<entry.detail>> ])
    ELSE [ merged EXCEPT ![g].details = AddDetailTo(@, entry.detail) ]

\* for entry in normalized_updates: the groups of merged, in insertion order
RECURSIVE MergeEntries(_, _, _)
MergeEntries(merged, entries, i) ==
    IF i > Len(entries) THEN merged
    ELSE MergeEntries(MergeEntry(merged, GroupOf(merged, entries[i].category),
                                 entries[i]),
                      entries, i + 1)

\* A detail that is not a str makes d.strip() (or text.lower()) raise
RaisesOnDetail(updates) ==
    \E i \in 1..Len(updates) : \E j \in 1..Len(updates[i].details) :
        updates[i].details[j].kind # "str"

normalize_ai_output(updates) ==
    IF RaisesOnDetail(updates)
    THEN [ status |-> "raised", categorized_updates |-> <<>> ]
    ELSE [ status |-> "returned",
           categorized_updates |-> MergeEntries(<<>>, SplitItems(updates, 1), 1) ]

-----------------------------------------------------------------------------
(* An AI proposal handed to normalize_ai_output (SpecNormalize) *)

MaxItems == 2
MaxDetails == 2

\* item.get('category'): a canonical token in another case, a free-form
\* label, a missing label
ProposalLabels ==
    { StrValue("social"), StrValue("my notes"), OtherValue("NoneType") }

\* The details of an item: texts, and a null among them
ProposalDetails ==
    { StrValue(d) : d \in ProposalTexts } \cup { OtherValue("NoneType") }

ProposalItems ==
    { [ category |-> c, details |-> ds ] :
        c \in ProposalLabels,
        ds \in UNION { [1..n -> ProposalDetails] : n \in 0..MaxDetails } }

\* ai_json.get('categorized_updates') or []
Proposals == UNION { [1..n -> ProposalItems] : n \in 0..MaxItems }

InitNormalize ==
    /\ contacts = <<>>
    /\ details = <<>>
    /\ ledger = <<>>
    /\ now = 0
    /\ last = NoResponse
    /\ procs = <<>>
    /\ call \in { [ fn |-> "proposal", updates |-> u ] : u \in Proposals }

Normalize ==
    /\ call.fn = "proposal"
    /\ call' = [ fn |-> "normalize_ai_output", updates |-> call.updates,
                 result |-> normalize_ai_output(call.updates) ]
    /\ UNCHANGED <<contacts, details, ledger, now, last, procs>>

SpecNormalize == InitNormalize /\ [][Normalize]_vars

\* The groups of a result
Groups(res) == 1..Len(res.result.categorized_updates)
Group(res, g) == res.result.categorized_updates[g]

-----------------------------------------------------------------------------
(* Re-split of the AI output (SpecNormalize) *)

\* The details of a proposal: item i, detail j
DetailsOf(updates) ==
    { p \in (1..Len(updates)) \X (1..MaxDetails) :
        p[2] <= Len(updates[p[1]].details) }

TextAt(updates, p) == updates[p[1]].details[p[2]].text

\* The bucket when the inference agrees with it or is Others, else the
\* inference
ClaimedCategory(bucket, inference) ==
    IF inference = bucket \/ inference = "Others" THEN bucket ELSE inference

FinalCategoryAt(updates, p) ==
    ClaimedCategory(canonicalize_value(updates[p[1]].category),
                    Inferred(TextAt(updates, p)))

\* p comes before q in the proposal
Before(p, q) == p[1] < q[1] \/ (p[1] = q[1] /\ p[2] < q[2])

\* The details of the proposal that a kept string of a category stands for:
\* same final category, equal text when case and outer blanks are ignored
StandsFor(updates, category, kept) ==
    { p \in DetailsOf(updates) :
        /\ FinalCategoryAt(updates, p) = category
        /\ DetailKey(TextAt(updates, p)) = DetailKey(kept) }

\* A kept string is the first of the details it stands for
IsFirstOf(updates, kept, ps) ==
    \E p \in ps :
        /\ TextAt(updates, p) = kept
        /\ \A q \in ps : ~Before(q, p)

-----------------------------------------------------------------------------
(* The details policy (Spec) *)

\* C24 (the details policy has no effect): a batch run with
\* policy_details=append leaves the store and the counters that the same
\* batch leaves with policy_details=preserve; append inserts no duplicate.
DetailsPolicyHasNoEffect ==
    [][(last'.req.details_policy = "append"
            /\ last'.status \in {"success", "preview"})
        => DecidedBy(run_merge(contacts, details,
                               Options([last'.req EXCEPT
                                            !.details_policy = "preserve"], 0),
                               Files[last'.req.file]))]_vars

-----------------------------------------------------------------------------
(* The three variants compared (Spec) *)

\* The same batch handed to run_admin_merge_process for user u
AsAdmin(req, u) == [req EXCEPT !.endpoint = "admin", !.user = u]

\* The store a batch leaves
LeavesStore(res) == contacts' = res.contacts /\ details' = res.details

\* run_admin_merge_process for user u, run on the store that res left
ThenAdmin(res, req, u) ==
    run_merge(res.contacts, res.details, Options(AsAdmin(req, u), 0),
              Files[req.file])

\* Supporting lemma for C25: a batch of run_admin_all_users_merge_process
\* leaves the store that run_admin_merge_process leaves when it is run for
\* each user in id order.
AllUsersIsAdminPerUser ==
    [][(last'.req.endpoint = "all" /\ last'.status = "success")
        => LeavesStore(ThenAdmin(ThenAdmin([contacts |-> contacts,
                                            details |-> details],
                                           last'.req, Min(Users)),
                                 last'.req, Max(Users)))]_vars

\* C25 (the variants are one state machine): a batch of run_merge_process
\* leaves the store (contacts, tiers, details, categories) that the same
\* batch with the same options leaves when run_admin_merge_process runs it
\* for user 1.
VariantsAgree ==
    [][(last'.req.endpoint = "user" /\ last'.status = "success")
        => LeavesStore(run_merge(contacts, details,
                                 Options(AsAdmin(last'.req, 1), 0),
                                 Files[last'.req.file]))]_vars

-----------------------------------------------------------------------------
(* The order of the two passes (SpecOrder): a record-type table whose rows
   stand in any order is merged into an empty store *)

MaxOrderRows == 3

OrderRows ==
    { Row("SYNTHESIZED_DETAIL", "Al", "1", "Social", "met"),
      Row("CONTACT", "al", "3", "", ""),
      Row("SYNTHESIZED_DETAIL", "Bo", "", "Social", "tea"),
      Row("CONTACT", "Cy", "x", "", "") }

\* The record-type tables of up to MaxOrderRows distinct rows, in every order
OrderTables ==
    UNION { { [ is_record_type |-> TRUE, rows |-> t ] :
              t \in { u \in [1..n -> OrderRows] :
                        \A i, j \in 1..n : i # j => u[i] # u[j] } } :
            n \in 0..MaxOrderRows }

OrderOptions ==
    { Options(r, 0) : r \in { q \in Requests : q.file = 1 /\ ~q.dry_run
                                               /\ q.user \in {0, 1} } }

InitOrder ==
    /\ contacts = <<>>
    /\ details = <<>>
    /\ ledger = <<>>
    /\ now = 0
    /\ last = NoResponse
    /\ procs = <<>>
    /\ call \in { [ fn |-> "table", table |-> t, options |-> o ] :
                  t \in OrderTables, o \in OrderOptions }

\* The batch is run on its own: both passes, then the commit
MergeTable ==
    /\ call.fn = "table"
    /\ LET res == run_merge(contacts, details, call.options, call.table)
       IN  /\ contacts' = res.contacts
           /\ details' = res.details
           /\ call' = [ fn |-> "run_merge", table |-> call.table,
                        options |-> call.options, status |-> res.status,
                        stats |-> res.stats ]
    /\ UNCHANGED <<ledger, now, last, procs>>

SpecOrder == InitOrder /\ [][MergeTable]_vars

IsContactRow(row) == RecordType(get_val(row, "record_type")) = "CONTACT"

IsDetailRow(row) ==
    RecordType(get_val(row, "record_type")) = "SYNTHESIZED_DETAIL"

NotContactRow(row) == ~IsContactRow(row)

\* The same table with its CONTACT rows moved to the front
ContactsFirst(table) ==
    [table EXCEPT !.rows = SelectSeq(@, IsContactRow) \o SelectSeq(@, NotContactRow)]

\* The rows of the table that name the contact
NamedBy(table, name) ==
    { i \in 1..Len(table.rows) :
        NameKey(get_val(table.rows[i], "contact_full_name")) = NameKey(name) }

ContactRowsOf(table, name) ==
    { i \in NamedBy(table, name) : IsContactRow(table.rows[i]) }

\* The stored contacts of user u that go by the name
StoredAs(name, u) ==
    { c \in 1..Len(contacts) :
        /\ contacts[c].user_id = u
        /\ NameKey(contacts[c].full_name) = NameKey(name) }

OwnersOf(o) == IF o.variant = "all" THEN Users ELSE {1}

-----------------------------------------------------------------------------
(* The range of stored tiers (Spec) *)

\* Supporting lemma for C27: a tier written onto an existing contact is one
\* of 1, 2, 3.
TierUpdatesInRange ==
    [][\A i \in 1..Len(contacts) :
            contacts'[i].tier # contacts[i].tier
                => contacts'[i].tier \in {1, 2, 3}]_vars

\* C27 (tier range): every stored contact has a tier that is one of 1, 2, 3,
\* whatever the tables carried in their tier cells.
TierRange == \A i \in 1..Len(contacts) : contacts[i].tier \in {1, 2, 3}

-----------------------------------------------------------------------------
(* The canonicalizer on its own results (SpecCategory) *)

\* Supporting lemma for C28: canonicalizing a result of the canonicalizer
\* gives the same result.
CanonicalizerIdempotent ==
    call.fn = "canonicalize_category" =>
        canonicalize_category(call.result) = call.result

\* C28 (identity on the canonical set): canonicalize_category returns each
\* of the 20 tokens of CATEGORY_ORDER unchanged, and canonicalizing a result
\* again gives the same result.
CanonicalIdentity ==
    call.fn = "canonicalize_category" =>
        /\ (call.value.kind = "str" /\ call.value.text \in VALID_CATEGORY_SET)
                => call.result = call.value.text
        /\ canonicalize_category(call.result) = call.result

-----------------------------------------------------------------------------
(* The duplicate signature (SpecSignature): a legacy table whose rows all
   name one contact is merged into an empty store, duplicates being skipped *)

MaxSigRows == 2

SigCategories == {"a", "a|b", "Social", ""}

SigContents == {"c", "b|c", "c "}

SigRows ==
    { Row("", "Al", "1", cat, content) :
        cat \in SigCategories, content \in SigContents }

SigTables ==
    { [ is_record_type |-> FALSE, rows |-> t ] :
        t \in UNION { [1..n -> SigRows] : n \in 0..MaxSigRows } }

SigOptions ==
    { o \in OrderOptions :
        o.tier_policy = "preserve" /\ o.details_policy = "preserve" }

InitSignature ==
    /\ contacts = <<>>
    /\ details = <<>>
    /\ ledger = <<>>
    /\ now = 0
    /\ last = NoResponse
    /\ procs = <<>>
    /\ call \in { [ fn |-> "table", table |-> t, options |-> o ] :
                  t \in SigTables, o \in SigOptions }

SpecSignature == InitSignature /\ [][MergeTable]_vars

\* The category a variant files a row under
FiledUnder(o, category) ==
    IF o.variant # "user" THEN Canonical(norm(category))
    ELSE IF norm(category) = "" THEN "Uncategorized"
    ELSE norm(category)

\* The distinct facts of the table: category and trimmed content
Facts(o, table) ==
    { << FiledUnder(o, table.rows[i].category), norm(table.rows[i].detail_content) >> :
        i \in 1..Len(table.rows) }

\* C29 (the signature is injective): rows of one contact are skipped as
\* duplicates only when category and trimmed content are both equal, so
\* every distinct fact of the table is stored, once for each owner.
SignatureInjective ==
    call.fn = "run_merge" =>
        /\ call.status = "success"
        /\ Len(details)
            = Cardinality(OwnersOf(call.options))
                * Cardinality(Facts(call.options, call.table))
        /\ call.stats.details_added = Len(details)

-----------------------------------------------------------------------------
(* Format detection and value resolution (SpecHeaders) *)

\* The header row of the legacy format
LegacyHeaders ==
    << "Contact Full Name", "Contact Tier", "Category", "Detail/Fact",
       "AI Confidence", "Entry Date" >>

\* Supporting lemma for C30: a table with the legacy headers is not
\* detected as record-type.
LegacyIsNotRecordType ==
    call.fn = "get_val" => ~has_logical(LegacyHeaders, "record_type")

\* Supporting lemma for C30: a header that get_val resolves as the
\* record_type field makes the table record-type.
ResolvedImpliesDetected ==
    call.fn = "get_val" =>
        (call.header["record_type"] # 0 => call.is_record_type)

\* C30 (format detection agrees with value resolution): a table is handled
\* as record-type exactly when get_val resolves one of its headers as the
\* record_type field, whose cell it then reads; the legacy header row is
\* not record-type.
FormatDetectionAgrees ==
    call.fn = "get_val" =>
        /\ call.is_record_type <=> call.header["record_type"] # 0
        /\ ~has_logical(LegacyHeaders, "record_type")

====
